---------------------------- MODULE Spec2Model ----------------------------
(***************************************************************************)
(* Model of the image post-processing core of AgentForge's asset scripts:  *)
(* the background removers of cleanup_assets.py, process_sprites.py,       *)
(* finalize_assets.py, generate_assets.py, generate_isometric_assets.py    *)
(* and generate_talent_assets.py, as operators over 8-bit RGBA pixels, and *)
(* a state machine that applies them to images.                            *)
(*                                                                         *)
(* The scripts compute with IEEE-754 binary64 (Python float / np.float64), *)
(* binary32 (np.float32) and wrapping 8-bit integers (np.uint8).  TLC's    *)
(* integers are 32 bits wide, so binary64 values are carried as a sign, an *)
(* arbitrary-precision mantissa (limbs of 15 bits) and a binary exponent,  *)
(* and every arithmetic step is the exact result rounded to nearest-even   *)
(* at the width the code uses.                                             *)
(***************************************************************************)
EXTENDS Integers, Sequences, FiniteSets, TLC

----------------------------------------------------------------------------
(* Arbitrary-precision naturals: little-endian sequences of limbs in       *)
(* 0..Limb-1 without leading (most significant) zero limbs; <<>> is zero.  *)

LimbBits == 15
Limb == 32768

Pow2(n) == 2 ^ n

RECURSIVE BNorm(_)
BNorm(a) ==
    IF a = <<>> THEN <<>>
    ELSE IF a[Len(a)] = 0 THEN BNorm(SubSeq(a, 1, Len(a) - 1))
    ELSE a

RECURSIVE BFromInt(_)
BFromInt(n) ==
    IF n = 0 THEN <<>> ELSE <<n % Limb>> \o BFromInt(n \div Limb)

BLimb(a, i) == IF i <= Len(a) THEN a[i] ELSE 0

Max2(x, y) == IF x >= y THEN x ELSE y
Min2(x, y) == IF x <= y THEN x ELSE y

RECURSIVE BCmpFrom(_, _, _)
BCmpFrom(a, b, i) ==
    IF i = 0 THEN 0
    ELSE IF BLimb(a, i) > BLimb(b, i) THEN 1
    ELSE IF BLimb(a, i) < BLimb(b, i) THEN -1
    ELSE BCmpFrom(a, b, i - 1)

BCmp(a, b) == BCmpFrom(a, b, Max2(Len(a), Len(b)))

RECURSIVE BAddFrom(_, _, _, _)
BAddFrom(a, b, i, carry) ==
    IF i > Len(a) /\ i > Len(b)
    THEN (IF carry = 0 THEN <<>> ELSE <<carry>>)
    ELSE LET t == BLimb(a, i) + BLimb(b, i) + carry
         IN  <<t % Limb>> \o BAddFrom(a, b, i + 1, t \div Limb)

BAdd(a, b) == BAddFrom(a, b, 1, 0)

RECURSIVE BSubFrom(_, _, _, _)
BSubFrom(a, b, i, borrow) ==
    IF i > Len(a) THEN <<>>
    ELSE LET t == BLimb(a, i) - BLimb(b, i) - borrow
         IN  IF t < 0 THEN <<t + Limb>> \o BSubFrom(a, b, i + 1, 1)
                      ELSE <<t>> \o BSubFrom(a, b, i + 1, 0)

\* a - b for a >= b
BSub(a, b) == BNorm(BSubFrom(a, b, 1, 0))

RECURSIVE BMulSmallFrom(_, _, _, _)
BMulSmallFrom(a, k, i, carry) ==
    IF i > Len(a)
    THEN (IF carry = 0 THEN <<>> ELSE <<carry>>)
    ELSE LET t == a[i] * k + carry
         IN  <<t % Limb>> \o BMulSmallFrom(a, k, i + 1, t \div Limb)

\* a * k for 0 <= k < Limb
BMulSmall(a, k) == IF k = 0 THEN <<>> ELSE BMulSmallFrom(a, k, 1, 0)

RECURSIVE BZeros(_)
BZeros(n) == IF n = 0 THEN <<>> ELSE <<0>> \o BZeros(n - 1)

RECURSIVE BMulFrom(_, _, _)
BMulFrom(a, b, j) ==
    IF j > Len(b) THEN <<>>
    ELSE BAdd(IF b[j] = 0 THEN <<>> ELSE BZeros(j - 1) \o BMulSmall(a, b[j]),
              BMulFrom(a, b, j + 1))

BMul(a, b) == IF a = <<>> \/ b = <<>> THEN <<>> ELSE BNorm(BMulFrom(a, b, 1))

\* a * 2^n
BShl(a, n) ==
    IF a = <<>> THEN <<>>
    ELSE BZeros(n \div LimbBits) \o BMulSmall(a, Pow2(n % LimbBits))

RECURSIVE BShrBitsFrom(_, _, _)
BShrBitsFrom(a, k, i) ==
    IF i > Len(a) THEN <<>>
    ELSE <<(a[i] \div Pow2(k)) + (BLimb(a, i + 1) % Pow2(k)) * Pow2(LimbBits - k)>>
         \o BShrBitsFrom(a, k, i + 1)

\* floor(a / 2^n)
BShrBits(hi, k) == IF k = 0 THEN hi ELSE BNorm(BShrBitsFrom(hi, k, 1))

BShrLimbs(a, w) == IF w >= Len(a) THEN <<>> ELSE SubSeq(a, w + 1, Len(a))

BShr(a, n) == BShrBits(BShrLimbs(a, n \div LimbBits), n % LimbBits)

RECURSIVE IntBitLen(_)
IntBitLen(n) == IF n = 0 THEN 0 ELSE 1 + IntBitLen(n \div 2)

BBitLen(a) == IF a = <<>> THEN 0 ELSE (Len(a) - 1) * LimbBits + IntBitLen(a[Len(a)])

BBit(a, i) == (BLimb(a, (i \div LimbBits) + 1) \div Pow2(i % LimbBits)) % 2

BIsOdd(a) == a # <<>> /\ a[1] % 2 = 1

RECURSIVE BToInt(_)
BToInt(a) == IF a = <<>> THEN 0 ELSE a[1] + Limb * BToInt(Tail(a))

\* Long division limb by limb (Knuth's algorithm D): [q, r] with
\* a = q*b + r, for b # 0 whose top limb is at least Limb/2.  BDivLimbs
\* consumes the limbs Len(a) .. j of a.  The digit estimated from the two
\* top limbs of the running remainder is at most 2 too large.
RECURSIVE BDivFix(_, _, _)
BDivFix(r, b, qd) ==
    IF BCmp(BMulSmall(b, qd), r) > 0 THEN BDivFix(r, b, qd - 1) ELSE qd

\* the quotient digit qd is put in front of the quotient and taken off the
\* running remainder r1
BDivApply(q, r1, b, qd) ==
    [q |-> BNorm(<<qd>> \o q), r |-> BSub(r1, BMulSmall(b, qd))]

BDivEstimate(r1, b, n) ==
    Min2((BLimb(r1, n + 1) * Limb + BLimb(r1, n)) \div b[n], Limb - 1)

BDivDigit(q, r1, b) ==
    BDivApply(q, r1, b,
              IF Len(r1) < Len(b) THEN 0
              ELSE BDivFix(r1, b, BDivEstimate(r1, b, Len(b))))

BDivStep(s, limb, b) == BDivDigit(s.q, BNorm(<<limb>> \o s.r), b)

RECURSIVE BDivLimbs(_, _, _)
BDivLimbs(a, b, j) ==
    IF j > Len(a) THEN [q |-> <<>>, r |-> <<>>]
    ELSE LET s == BDivLimbs(a, b, j + 1)
         IN  \* the test makes TLC evaluate s before it starts the step
             IF Len(s.q) >= 0 THEN BDivStep(s, a[j], b) ELSE s

\* [q, r] with a = q*b + r for b # 0; both operands are scaled by the same
\* power of two to bring the top limb of b to Limb/2 or more, which leaves
\* q unchanged and scales r
BDivUnscale(d, sh) == [q |-> d.q, r |-> BShr(d.r, sh)]

BDivScaled(a, b, sh) == BDivUnscale(BDivLimbs(BShl(a, sh), BShl(b, sh), 1), sh)

BDivMod(a, b) == BDivScaled(a, b, LimbBits - IntBitLen(b[Len(b)]))

----------------------------------------------------------------------------
(* Binary floating point.  A value is [neg, m, e] = (-1)^neg * m * 2^e     *)
(* with m an arbitrary-precision natural that is odd or zero, so that two  *)
(* records are equal exactly when the numbers are.  The values of the      *)
(* scripts stay far from the overflow, underflow and subnormal ranges, and *)
(* no NaN or infinity arises from 8-bit inputs, so the exponent is         *)
(* unbounded here.                                                         *)
(*                                                                         *)
(* TLC evaluates the argument of an operator where the operator first uses *)
(* it, which nests the evaluation of a chain of operations as deep as the  *)
(* chain is long.  An operation written CASE x = x -> e evaluates its      *)
(* argument x first and then e, which keeps the evaluation shallow and     *)
(* changes no value.                                                       *)

DoubleBits == 53    \* significand width of Python float / np.float64
SingleBits == 24    \* significand width of np.float32

FZero == [neg |-> FALSE, m |-> <<>>, e |-> 0]

RECURSIVE IntTrailingZeros(_)
IntTrailingZeros(n) == IF n % 2 = 1 THEN 0 ELSE 1 + IntTrailingZeros(n \div 2)

RECURSIVE BZeroLimbs(_, _)
BZeroLimbs(a, i) == IF a[i] # 0 THEN i - 1 ELSE BZeroLimbs(a, i + 1)

\* number of trailing zero bits of a # 0, whose lowest z limbs are zero
BTrailingZerosAt(a, z) == z * LimbBits + IntTrailingZeros(a[z + 1])

BTrailingZeros(a) == BTrailingZerosAt(a, BZeroLimbs(a, 1))

FStrip(neg, m, e, tz) == [neg |-> neg, m |-> BShr(m, tz), e |-> e + tz]

FCanon(neg, m, e) ==
    IF m = <<>> THEN FZero ELSE FStrip(neg, m, e, BTrailingZeros(m))

\* Round the exact value (-1)^neg * (m + f) * 2^e, where 0 < f < 1 when
\* sticky and f = 0 otherwise, to a significand of p bits, ties to even.
\* With sticky set, m has at least p + 2 bits.  sh is the number of bits
\* dropped, q the kept bits, c the comparison of the dropped bits with half
\* a unit of q.
FRoundUp(neg, e, sticky, sh, q, c) ==
    FCanon(neg,
           IF c > 0 \/ (c = 0 /\ (sticky \/ BIsOdd(q))) THEN BAdd(q, <<1>>) ELSE q,
           e + sh)

FRoundQuot(neg, m, e, sticky, sh, q) ==
    CASE q = q ->
    FRoundUp(neg, e, sticky, sh, q, BCmp(BSub(m, BShl(q, sh)), BShl(<<1>>, sh - 1)))

FRoundAt(neg, m, e, sticky, sh) == FRoundQuot(neg, m, e, sticky, sh, BShr(m, sh))

FRound(neg, m, e, sticky, p) ==
    CASE m = m /\ sticky = sticky ->
    IF BBitLen(m) <= p THEN FCanon(neg, m, e)
    ELSE FRoundAt(neg, m, e, sticky, BBitLen(m) - p)

FFromInt(n) == FCanon(n < 0, BFromInt(IF n < 0 THEN -n ELSE n), 0)

FNeg(x) == IF x.m = <<>> THEN x ELSE [x EXCEPT !.neg = ~x.neg]

\* exact sum, not rounded: the mantissas mx, my are brought to the common
\* exponent e0, and c compares them when the signs differ
FDiffer(xneg, yneg, mx, my, e0, c) ==
    IF c = 0 THEN FZero
    ELSE IF c > 0 THEN [neg |-> xneg, m |-> BSub(mx, my), e |-> e0]
    ELSE [neg |-> yneg, m |-> BSub(my, mx), e |-> e0]

FCombine(xneg, yneg, mx, my, e0) ==
    CASE mx = mx /\ my = my ->
    IF xneg = yneg THEN [neg |-> xneg, m |-> BAdd(mx, my), e |-> e0]
    ELSE FDiffer(xneg, yneg, mx, my, e0, BCmp(mx, my))

FAlign(x, y, e0) ==
    FCombine(x.neg, y.neg, BShl(x.m, x.e - e0), BShl(y.m, y.e - e0), e0)

FExactAdd(x, y) ==
    CASE x = x /\ y = y ->
    IF x.m = <<>> THEN y
    ELSE IF y.m = <<>> THEN x
    ELSE FAlign(x, y, Min2(x.e, y.e))

FSign(x) == IF x.m = <<>> THEN 0 ELSE IF x.neg THEN -1 ELSE 1

\* -1, 0, 1 as x < y, x = y, x > y
FCmp(x, y) == FSign(FExactAdd(x, FNeg(y)))
FLt(x, y) == FCmp(x, y) < 0
FLe(x, y) == FCmp(x, y) <= 0
FGe(x, y) == FCmp(x, y) >= 0
FGt(x, y) == FCmp(x, y) > 0

\* the value z rounded to p bits
FRoundValue(z, p) == CASE z = z -> FRound(z.neg, z.m, z.e, FALSE, p)

\* x + y, x - y, x * y, x / y rounded to p bits
FAddP(x, y, p) == FRoundValue(FExactAdd(x, y), p)
FSubP(x, y, p) == FAddP(x, FNeg(y), p)
FMulP(x, y, p) ==
    CASE x = x /\ y = y ->
    FRound(x.neg # y.neg, BMul(x.m, y.m), x.e + y.e, FALSE, p)

\* the quotient of the mantissas is taken with k extra bits, so that it has
\* at least p + 2 bits, and the remainder is the sticky bit
FDivQuot(neg, d, e, p) == CASE d = d -> FRound(neg, d.q, e, d.r # <<>>, p)

FDivShifted(x, y, p, k) ==
    FDivQuot(x.neg # y.neg, BDivMod(BShl(x.m, k), y.m), x.e - k - y.e, p)

FDivP(x, y, p) ==
    CASE x = x /\ y = y ->
    IF x.m = <<>> THEN FZero
    ELSE FDivShifted(x, y, p, Max2(0, p + 2 + BBitLen(y.m) - BBitLen(x.m)))

\* Python float and np.float64 arithmetic
FAdd(x, y) == FAddP(x, y, DoubleBits)
FSub(x, y) == FSubP(x, y, DoubleBits)
FMul(x, y) == FMulP(x, y, DoubleBits)
FDiv(x, y) == FDivP(x, y, DoubleBits)

\* conversion of a binary64 value to np.float32
F32(x) == FRoundValue(x, SingleBits)

\* conversion to an integer, truncating toward zero (ndarray.astype of a
\* value below 2^31 in magnitude)
FTruncSigned(neg, n) == IF neg THEN -n ELSE n

FTrunc(x) ==
    CASE x = x ->
    FTruncSigned(x.neg, IF x.e >= 0 THEN BToInt(BShl(x.m, x.e))
                        ELSE BToInt(BShr(x.m, -x.e)))

FMin(x, y) == CASE x = x /\ y = y -> IF FLt(y, x) THEN y ELSE x
FMax(x, y) == CASE x = x /\ y = y -> IF FGt(y, x) THEN y ELSE x

\* floor of the square root of n # 0, by Newton's iteration from a power of
\* two above the root; the iterates decrease until the root is reached
RECURSIVE BSqrtFrom(_, _)
RECURSIVE BSqrtNext(_, _, _)
BSqrtNext(n, x, y) ==
    CASE y = y -> IF BCmp(y, x) < 0 THEN BSqrtFrom(n, y) ELSE x

BSqrtFrom(n, x) == BSqrtNext(n, x, BShr(BAdd(x, BDivMod(n, x).q), 1))

BSqrt(n) == BSqrtFrom(n, BShl(<<1>>, (BBitLen(n) + 1) \div 2))

\* the square root of the natural number n, rounded to p bits: the root of
\* n * 4^(p + 2), with the sticky bit set when it is not exact
FSqrtRoot(big, root, p) ==
    CASE root = root -> FRound(FALSE, root, -(p + 2), BMul(root, root) # big, p)

FSqrtScaled(big, p) == FSqrtRoot(big, BSqrt(big), p)

FSqrtP(n, p) ==
    IF n = 0 THEN FZero ELSE FSqrtScaled(BShl(BFromInt(n), 2 * (p + 2)), p)

\* fmod(x, k) of C for a positive integer k: the exact remainder of the
\* division truncated toward zero, with the sign of x
FFmod(x, k) ==
    CASE x = x ->
    IF x.e >= 0
    THEN FCanon(x.neg, BDivMod(BShl(x.m, x.e), BFromInt(k)).r, 0)
    ELSE FCanon(x.neg, BDivMod(x.m, BShl(BFromInt(k), -x.e)).r, x.e)

\* x % k of Python and numpy for a positive integer k: fmod, plus k when the
\* remainder is negative
PyModFix(mod, k) ==
    CASE mod = mod -> IF mod.m # <<>> /\ mod.neg THEN FAdd(mod, FFromInt(k)) ELSE mod

PyMod(x, k) == PyModFix(FFmod(x, k), k)

\* a decimal literal num/den of the source text, as the nearest binary64
Lit(num, den) == FDiv(FFromInt(num), FFromInt(den))

----------------------------------------------------------------------------
(* cleanup_assets.py                                                       *)

\* the decimal literals 0.2 are kept as <<numerator, denominator>> and
\* converted to binary64 by Lit where they are compared
REMOVE_COLORS ==
    [green_screen |-> [hue_range |-> <<80, 160>>,
                       sat_min |-> <<2, 10>>, val_min |-> <<2, 10>>],
     blue_screen  |-> [hue_range |-> <<180, 260>>,
                       sat_min |-> <<2, 10>>, val_min |-> <<2, 10>>],
     near_black   |-> [rgb_max |-> 20],
     near_white   |-> [rgb_min |-> 240]]

FEATHER_RADIUS == 1

\* the hue, from the channels scaled to [0, 1], their maximum and the
\* difference of maximum and minimum
\* variant: the hue of the red region without the modulus
HueRedNoMod(r, g, b, diff) ==
    FMul(FFromInt(60), FDiv(FSub(g, b), diff))

\* the three regions of the hue, by the channel that is the maximum
HueRed(r, g, b, diff) ==
    FMul(FFromInt(60), PyMod(FDiv(FSub(g, b), diff), 6))

HueGreen(r, g, b, diff) ==
    FMul(FFromInt(60), FAdd(FDiv(FSub(b, r), diff), FFromInt(2)))

HueBlue(r, g, b, diff) ==
    FMul(FFromInt(60), FAdd(FDiv(FSub(r, g), diff), FFromInt(4)))

Hue(r, g, b, max_c, diff) ==
    IF diff = FZero THEN FZero
    ELSE IF max_c = r THEN HueRed(r, g, b, diff)
    ELSE IF max_c = g THEN HueGreen(r, g, b, diff)
    ELSE HueBlue(r, g, b, diff)

HsvOfDiff(r, g, b, max_c, diff) ==
    CASE diff = diff ->
    [h |-> Hue(r, g, b, max_c, diff),
     s |-> IF max_c = FZero THEN FZero ELSE FDiv(diff, max_c),
     v |-> max_c]

HsvOfRange(r, g, b, max_c, min_c) ==
    CASE max_c = max_c /\ min_c = min_c ->
    HsvOfDiff(r, g, b, max_c, FSub(max_c, min_c))

HsvOfScaled(r, g, b) ==
    CASE r = r /\ g = g /\ b = b ->
    HsvOfRange(r, g, b, FMax(FMax(r, g), b), FMin(FMin(r, g), b))

rgb_to_hsv(r0, g0, b0) ==
    HsvOfScaled(FDiv(FFromInt(r0), FFromInt(255)),
                FDiv(FFromInt(g0), FFromInt(255)),
                FDiv(FFromInt(b0), FFromInt(255)))

ScreenNames == <<"green_screen", "blue_screen">>

\* variant: the bounds of the hue bands are exclusive
RECURSIVE ScreenLoopStrict(_, _)
ScreenLoopStrict(hsv, i) ==
    IF i > Len(ScreenNames) THEN [remove |-> FALSE, confidence |-> FZero]
    ELSE LET config == REMOVE_COLORS[ScreenNames[i]]
         IN  IF /\ FLt(FFromInt(config.hue_range[1]), hsv.h)
                /\ FLt(hsv.h, FFromInt(config.hue_range[2]))
                /\ FGe(hsv.s, Lit(config.sat_min[1], config.sat_min[2]))
                /\ FGe(hsv.v, Lit(config.val_min[1], config.val_min[2]))
             THEN [remove |-> TRUE,
                   confidence |-> FMin(FFromInt(1), FDiv(hsv.s, Lit(5, 10)))]
             ELSE ScreenLoopStrict(hsv, i + 1)

\* the loop over the colour screens, from the i-th name on
RECURSIVE ScreenLoop(_, _)
ScreenLoop(hsv, i) ==
    IF i > Len(ScreenNames) THEN [remove |-> FALSE, confidence |-> FZero]
    ELSE LET config == REMOVE_COLORS[ScreenNames[i]]
         IN  IF /\ FLe(FFromInt(config.hue_range[1]), hsv.h)
                /\ FLe(hsv.h, FFromInt(config.hue_range[2]))
                /\ FGe(hsv.s, Lit(config.sat_min[1], config.sat_min[2]))
                /\ FGe(hsv.v, Lit(config.val_min[1], config.val_min[2]))
             THEN [remove |-> TRUE,
                   confidence |-> FMin(FFromInt(1), FDiv(hsv.s, Lit(5, 10)))]
             ELSE ScreenLoop(hsv, i + 1)

\* variant: the near-black and near-white thresholds are strict
should_remove_pixel_strict(r, g, b) ==
    IF /\ r < REMOVE_COLORS.near_black.rgb_max
       /\ g < REMOVE_COLORS.near_black.rgb_max
       /\ b < REMOVE_COLORS.near_black.rgb_max
    THEN [remove |-> TRUE, confidence |-> FFromInt(1)]
    ELSE IF /\ r > REMOVE_COLORS.near_white.rgb_min
            /\ g > REMOVE_COLORS.near_white.rgb_min
            /\ b > REMOVE_COLORS.near_white.rgb_min
    THEN [remove |-> TRUE, confidence |-> FFromInt(1)]
    ELSE ScreenLoop(rgb_to_hsv(r, g, b), 1)

should_remove_pixel(r, g, b) ==
    IF /\ r <= REMOVE_COLORS.near_black.rgb_max
       /\ g <= REMOVE_COLORS.near_black.rgb_max
       /\ b <= REMOVE_COLORS.near_black.rgb_max
    THEN [remove |-> TRUE, confidence |-> FFromInt(1)]
    ELSE IF /\ r >= REMOVE_COLORS.near_white.rgb_min
            /\ g >= REMOVE_COLORS.near_white.rgb_min
            /\ b >= REMOVE_COLORS.near_white.rgb_min
    THEN [remove |-> TRUE, confidence |-> FFromInt(1)]
    ELSE ScreenLoop(rgb_to_hsv(r, g, b), 1)

\* variant: a removed pixel gets 1 - confidence, not scaled by its alpha,
\* and transparent pixels are not skipped
NewAlphaUnscaled(a, should_remove, confidence) ==
    IF should_remove
    THEN F32(FSub(FFromInt(1), confidence))
    ELSE F32(FDiv(FFromInt(a), FFromInt(255)))

\* variant: the alpha is scaled by the confidence instead of 1 - confidence
NewAlphaInverted(a, should_remove, confidence) ==
    IF a = 0 THEN FZero
    ELSE IF should_remove
         THEN F32(FMul(confidence, FDiv(FFromInt(a), FFromInt(255))))
         ELSE F32(FDiv(FFromInt(a), FFromInt(255)))

\* variant: the alpha is normalised by 256 instead of 255
NewAlphaDiv256(a, should_remove, confidence) ==
    IF a = 0 THEN FZero
    ELSE IF should_remove
         THEN F32(FMul(FSub(FFromInt(1), confidence), FDiv(FFromInt(a), FFromInt(256))))
         ELSE F32(FDiv(FFromInt(a), FFromInt(256)))

\* new_alpha[y, x] of remove_background for a pixel of alpha a whose
\* classification is (should_remove, confidence): a float32 array element
NewAlpha(a, should_remove, confidence) ==
    IF a = 0 THEN FZero
    ELSE IF should_remove
         THEN F32(FMul(FSub(FFromInt(1), confidence), FDiv(FFromInt(a), FFromInt(255))))
         ELSE F32(FDiv(FFromInt(a), FFromInt(255)))

\* variant: the scaled value is rounded to the nearest integer
AlphaByteRounded(new_alpha) ==
    FTrunc(FAddP(FMulP(new_alpha, FFromInt(255), SingleBits), Lit(1, 2), SingleBits)) % 256

\* variant: the scaled value is rounded up
AlphaByteCeil(new_alpha) ==
    (IF FLt(FFromInt(FTrunc(FMulP(new_alpha, FFromInt(255), SingleBits))),
            FMulP(new_alpha, FFromInt(255), SingleBits))
     THEN FTrunc(FMulP(new_alpha, FFromInt(255), SingleBits)) + 1
     ELSE FTrunc(FMulP(new_alpha, FFromInt(255), SingleBits))) % 256

\* (new_alpha * 255).astype(np.uint8) for one element
AlphaByte(new_alpha) == FTrunc(FMulP(new_alpha, FFromInt(255), SingleBits)) % 256

----------------------------------------------------------------------------
(* Images.  A pixel is <<r, g, b, a>> with 8-bit channels; an image is     *)
(* [w, h, px] with px the pixels in row-major order, pixel (x, y) at index *)
(* y*w + x + 1.                                                            *)

Byte == 0 .. 255

NoImage == [w |-> 0, h |-> 0, px |-> <<>>]

Idx(im, x, y) == y * im.w + x + 1
At(im, x, y) == im.px[Idx(im, x, y)]
Positions(im) == 1 .. Len(im.px)
PixelSet(im) == {im.px[i] : i \in Positions(im)}

\* A function as the set of its pairs <<x, F(x)>>, which TLC computes once,
\* where it would compute a function [x \in S |-> F(x)] anew at each use.
Tabulate(S, F(_)) == {<<x, F(x)>> : x \in S}
Get(tab, x) == (CHOOSE e \in tab : e[1] = x)[2]

\* The image whose pixel at each position is F of the pixel of im there.
\* F is evaluated once for each distinct pixel value of im.
MapPixels(im, F(_)) ==
    LET tab == Tabulate(PixelSet(im), F)
    IN  [im EXCEPT !.px = [i \in Positions(im) |-> Get(tab, im.px[i])]]

SetAlpha(p, a) == <<p[1], p[2], p[3], a>>

----------------------------------------------------------------------------
(* cleanup_assets.remove_background                                        *)

\* variant: a pixel that is not removed is made fully opaque
CleanupNewAlphaOpaque(p) ==
    IF p[4] = 0 THEN FZero
    ELSE LET c == should_remove_pixel(p[1], p[2], p[3])
         IN  IF c.remove THEN NewAlpha(p[4], c.remove, c.confidence) ELSE FFromInt(1)

\* new_alpha[y, x] for a pixel of alpha a > 0 classified as c
NewAlphaOf(a, c) == NewAlpha(a, c.remove, c.confidence)

\* new_alpha[y, x] after the pixel loop
CleanupNewAlpha(p) ==
    IF p[4] = 0 THEN FZero
    ELSE NewAlphaOf(p[4], should_remove_pixel(p[1], p[2], p[3]))

\* index reflected into 0 .. n-1 (scipy.ndimage mode 'reflect')
Reflect(i, n) == IF i < 0 THEN -i - 1 ELSE IF i >= n THEN 2 * n - 1 - i ELSE i

\* scipy.ndimage.uniform_filter(new_alpha, size = 2*radius + 1) of a float32
\* array (the pairs <<i, value>> over the row-major positions of a w by h
\* image): the mean over the window along axis 0 (y), then along axis 1
\* (x), each pass stored as float32.

\* the position k steps from position i along the axis
Neighbour(i, k, axis, w, h) ==
    LET x == (i - 1) % w
        y == (i - 1) \div w
    IN  IF axis = 0 THEN Reflect(y + k, h) * w + x + 1
                    ELSE y * w + Reflect(x + k, w) + 1

\* the sum of the window of position i from offset -radius up to k
RECURSIVE WindowSum(_, _, _, _, _, _, _)
WindowSum(arr, i, k, radius, axis, w, h) ==
    LET v == Get(arr, Neighbour(i, k, axis, w, h))
    IN  IF k = -radius THEN v
        ELSE FAdd(WindowSum(arr, i, k - 1, radius, axis, w, h), v)

uniform_filter1d(arr, radius, axis, w, h) ==
    LET mean(i) == F32(FDiv(WindowSum(arr, i, radius, radius, axis, w, h),
                            FFromInt(2 * radius + 1)))
    IN  Tabulate(1 .. w * h, mean)

uniform_filter(arr, radius, w, h) ==
    uniform_filter1d(uniform_filter1d(arr, radius, 0, w, h), radius, 1, w, h)

\* new_alpha after the pixel loop: the pairs <<position, value>>; the
\* classification is computed once for each distinct pixel value
CleanupLoop(im) ==
    LET tab == Tabulate(PixelSet(im), CleanupNewAlpha)
        at(i) == Get(tab, im.px[i])
    IN  Tabulate(Positions(im), at)

\* pixels[:, :, 3] = (new_alpha * 255).astype(np.uint8)
CleanupApplyAlpha(im, new_alpha) ==
    [im EXCEPT !.px = [i \in Positions(im) |->
                          SetAlpha(im.px[i], AlphaByte(Get(new_alpha, i)))]]

\* variant: the alpha is blurred whatever aggressive is
CleanupFeatherAlways(im, aggressive, new_alpha) ==
    CleanupApplyAlpha(im, uniform_filter(new_alpha, FEATHER_RADIUS, im.w, im.h))

CleanupFeather(im, aggressive, new_alpha) ==
    CleanupApplyAlpha(im, IF aggressive /\ FEATHER_RADIUS > 0
                          THEN uniform_filter(new_alpha, FEATHER_RADIUS, im.w, im.h)
                          ELSE new_alpha)

\* remove_background(img, aggressive) of cleanup_assets.py
CleanupRemoveBackground(im, aggressive) ==
    CleanupFeather(im, aggressive, CleanupLoop(im))

----------------------------------------------------------------------------
(* generate_isometric_assets.py and generate_talent_assets.py              *)

GREEN_THRESHOLD == 180
OTHER_THRESHOLD == 120

IsoChromaPixel(p, green_threshold, other_threshold) ==
    IF p[4] = 0 THEN p
    ELSE IF p[2] >= green_threshold /\ p[1] <= other_threshold /\ p[3] <= other_threshold
         THEN <<0, 0, 0, 0>>
         ELSE p

\* remove_background_chroma of generate_isometric_assets.py
IsoRemoveBackgroundChroma(im, green_threshold, other_threshold) ==
    LET F(p) == IsoChromaPixel(p, green_threshold, other_threshold)
    IN  MapPixels(im, F)

TalentChromaPixel(p, green_threshold, other_threshold) ==
    IF p[4] = 0 THEN p
    ELSE IF p[2] >= green_threshold /\ p[1] <= other_threshold /\ p[3] <= other_threshold
         THEN <<0, 0, 0, 0>>
         ELSE p

\* remove_background_chroma of generate_talent_assets.py
TalentRemoveBackgroundChroma(im, green_threshold, other_threshold) ==
    LET F(p) == TalentChromaPixel(p, green_threshold, other_threshold)
    IN  MapPixels(im, F)

----------------------------------------------------------------------------
(* remove_background of generate_isometric_assets.py and                   *)
(* generate_talent_assets.py: rembg first, the chroma key as fallback      *)

\* what the call rembg_remove(img) does: it returns an image, returns the
\* bytes of an encoded image, raises, or returns a value that cannot be
\* loaded as an image
RembgOutcomes == {"image", "bytes", "raises", "unusable"}

Returned(im) == [raised |-> "none", im |-> im]
Raised(exc) == [raised |-> exc, im |-> NoImage]

\* variant: img.convert("RGBA") failing is swallowed and the input returned
IsoChromaCallSwallowed(im, decodable) ==
    IF decodable
    THEN Returned(IsoRemoveBackgroundChroma(im, GREEN_THRESHOLD, OTHER_THRESHOLD))
    ELSE Returned(im)

\* remove_background_chroma(img) with its default thresholds;
\* img.convert("RGBA") raises OSError when the data of the image file
\* cannot be decoded
IsoChromaCall(im, decodable) ==
    IF im = NoImage THEN Returned(im)
    ELSE IF decodable
    THEN Returned(IsoRemoveBackgroundChroma(im, GREEN_THRESHOLD, OTHER_THRESHOLD))
    ELSE Raised("OSError")

\* variant: when rembg fails, what it left is returned, or the input as it is
IsoRemoveBackgroundNoFallback(im, has_rembg, outcome, result, decodable) ==
    IF has_rembg
    THEN IF outcome = "raises" THEN Returned(im) ELSE Returned(result)
    ELSE IsoChromaCall(im, decodable)

\* remove_background of generate_isometric_assets.py; result is the image
\* rembg produces when it produces one
IsoRemoveBackground(im, has_rembg, outcome, result, decodable) ==
    IF im = NoImage THEN Returned(im)
    ELSE IF has_rembg
    THEN IF outcome \in {"image", "bytes"}
         THEN Returned(result)
         ELSE IsoChromaCall(im, decodable)
    ELSE IsoChromaCall(im, decodable)

TalentChromaCall(im, decodable) ==
    IF im = NoImage THEN Returned(im)
    ELSE IF decodable
    THEN Returned(TalentRemoveBackgroundChroma(im, GREEN_THRESHOLD, OTHER_THRESHOLD))
    ELSE Raised("OSError")

\* remove_background of generate_talent_assets.py
TalentRemoveBackground(im, has_rembg, outcome, result, decodable) ==
    IF im = NoImage THEN Returned(im)
    ELSE IF has_rembg
    THEN IF outcome \in {"image", "bytes"}
         THEN Returned(result)
         ELSE TalentChromaCall(im, decodable)
    ELSE TalentChromaCall(im, decodable)

----------------------------------------------------------------------------
(* generate_ui_assets.py: should_remove_pixel and remove_background        *)

\* variant: the screens are tested with saturation 0.15
UiScreenWide(hsv) ==
    \/ /\ FLe(FFromInt(80), hsv.h) /\ FLe(hsv.h, FFromInt(160))
       /\ FGe(hsv.s, Lit(15, 100)) /\ FGe(hsv.v, Lit(2, 10))
    \/ /\ FLe(FFromInt(180), hsv.h) /\ FLe(hsv.h, FFromInt(260))
       /\ FGe(hsv.s, Lit(15, 100)) /\ FGe(hsv.v, Lit(2, 10))

UiScreen(hsv) ==
    \/ /\ FLe(FFromInt(80), hsv.h) /\ FLe(hsv.h, FFromInt(160))
       /\ FGe(hsv.s, Lit(25, 100)) /\ FGe(hsv.v, Lit(2, 10))
    \/ /\ FLe(FFromInt(180), hsv.h) /\ FLe(hsv.h, FFromInt(260))
       /\ FGe(hsv.s, Lit(25, 100)) /\ FGe(hsv.v, Lit(2, 10))

UiShouldRemovePixel(r, g, b) ==
    IF r <= 20 /\ g <= 20 /\ b <= 20 THEN TRUE
    ELSE IF r >= 240 /\ g >= 240 /\ b >= 240 THEN TRUE
    ELSE UiScreen(rgb_to_hsv(r, g, b))

UiChromaPixel(p) ==
    IF UiShouldRemovePixel(p[1], p[2], p[3]) THEN <<p[1], p[2], p[3], 0>> ELSE p

\* the branch of remove_background taken without rembg
UiChroma(im, decodable) ==
    IF decodable THEN Returned(MapPixels(im, UiChromaPixel)) ELSE Raised("OSError")

\* the branch taken with rembg: the call is not guarded, and result.save
\* raises AttributeError for a value that is not an image
UiRembg(outcome, result) ==
    IF outcome = "image" THEN Returned(result)
    ELSE IF outcome = "raises" THEN Raised("Exception")
    ELSE Raised("AttributeError")

\* remove_background of generate_ui_assets.py, on the decoded image data
UiRemoveBackground(im, has_pil, has_rembg, outcome, result, decodable) ==
    IF ~has_pil THEN Returned(im)
    ELSE IF has_rembg THEN UiRembg(outcome, result)
    ELSE UiChroma(im, decodable)

----------------------------------------------------------------------------
(* process_sprites.remove_background_chroma                                *)

\* diff_r**2 + diff_g**2 + diff_b**2 in int32 (at most 3 * 255^2)
SumSq(p, key) ==
    (p[1] - key[1]) * (p[1] - key[1]) + (p[2] - key[2]) * (p[2] - key[2])
    + (p[3] - key[3]) * (p[3] - key[3])

\* dist for one pixel: np.sqrt of an int32 value, a float64
SpritesDist(p, key_color) == FSqrtP(SumSq(p, key_color), DoubleBits)

\* variant: the ramp of the fade band runs from 255 down to 0
SpritesNewAlphaInvertedRamp(p, key_color, tolerance, fade) ==
    LET dist == SpritesDist(p, key_color)
        tol == FFromInt(tolerance)
    IN  IF fade > 0 /\ FGe(dist, tol) /\ FLt(dist, FFromInt(tolerance + fade))
        THEN FMul(FSub(FFromInt(1), FDiv(FSub(dist, tol), FFromInt(fade))), FFromInt(255))
        ELSE IF FLt(dist, tol) THEN FZero
        ELSE FFromInt(255)

\* new_alpha for one pixel, a float64 array element
SpritesNewAlpha(p, key_color, tolerance, fade) ==
    LET dist == SpritesDist(p, key_color)
        tol == FFromInt(tolerance)
    IN  IF fade > 0 /\ FGe(dist, tol) /\ FLt(dist, FFromInt(tolerance + fade))
        THEN FMul(FDiv(FSub(dist, tol), FFromInt(fade)), FFromInt(255))
        ELSE IF FLt(dist, tol) THEN FZero
        ELSE FFromInt(255)

SpritesRemoveBackgroundChroma(im, key_color, tolerance, fade) ==
    LET F(p) == SetAlpha(p, FTrunc(SpritesNewAlpha(p, key_color, tolerance, fade)) % 256)
    IN  MapPixels(im, F)

----------------------------------------------------------------------------
(* process_sprites.process_sprite_sheet                                    *)

\* variant: the cell of row r and column c taken down the columns
BoxTransposed(r, c, cell_width, cell_height) ==
    <<r * cell_width, c * cell_height,
      r * cell_width + cell_width, c * cell_height + cell_height>>

\* (left, top, right, bottom) of the cell of row r and column c
Box(r, c, cell_width, cell_height) ==
    <<c * cell_width, r * cell_height,
      c * cell_width + cell_width, r * cell_height + cell_height>>

\* the boxes in the order of the loops: for r in range(rows), for c in
\* range(cols)
Boxes(rows, cols, cell_width, cell_height) ==
    [k \in 1 .. rows * cols |->
        Box((k - 1) \div cols, (k - 1) % cols, cell_width, cell_height)]

\* the pixel a crop takes at (x, y): outside the image it is transparent
\* black
CropPixel(im, x, y) ==
    IF x < im.w /\ y < im.h THEN At(im, x, y) ELSE <<0, 0, 0, 0>>

\* img.crop(box)
Crop(im, box) ==
    [w |-> box[3] - box[1], h |-> box[4] - box[2],
     px |-> [i \in 1 .. (box[3] - box[1]) * (box[4] - box[2]) |->
                CropPixel(im, box[1] + ((i - 1) % (box[3] - box[1])),
                              box[2] + ((i - 1) \div (box[3] - box[1])))]]

Frames(im, boxes) == [k \in DOMAIN boxes |-> Crop(im, boxes[k])]

\* what process_sprite_sheet leaves: the grid and the duration it was
\* given, the boxes and the frames of the loop, whether the output file was
\* written, and the frames, the duration of each frame and the loop count
\* given to the encoder
Sheet(rows, cols, duration, boxes, frames, written, encoded, durations, loop) ==
    [rows |-> rows, cols |-> cols, duration |-> duration, boxes |-> boxes,
     frames |-> frames, written |-> written, encoded |-> encoded,
     durations |-> durations, loop |-> loop]
NoSheet == Sheet(0, 0, 0, <<>>, <<>>, FALSE, <<>>, <<>>, -1)

\* variant: the first frame is appended after the others
SaveAnimationFirstLast(rows, cols, duration, boxes, frames) ==
    Sheet(rows, cols, duration, boxes, frames, TRUE,
          SubSeq(frames, 2, Len(frames)) \o <<frames[1]>>,
          [k \in DOMAIN frames |-> duration], 0)

\* frames[0].save(output_path, save_all=True, append_images=frames[1:],
\* duration=duration, loop=0, ...)
SaveAnimation(rows, cols, duration, boxes, frames) ==
    Sheet(rows, cols, duration, boxes, frames, TRUE,
          <<frames[1]>> \o SubSeq(frames, 2, Len(frames)),
          [k \in DOMAIN frames |-> duration], 0)

\* variant: the side of a cell is rounded up
CellSideCeil(side, n) == (side + n - 1) \div n

\* cell_width = width // cols, cell_height = height // rows
CellSide(side, n) == side \div n

\* the slicing when the save raises: no file is left
SliceUnsaved(im, rows, cols, duration, cell_width, cell_height) ==
    Sheet(rows, cols, duration,
          Boxes(rows, cols, cell_width, cell_height),
          Frames(im, Boxes(rows, cols, cell_width, cell_height)),
          FALSE, <<>>, <<>>, -1)

\* the slicing and the save, for rows and cols other than 0
SliceAndSave(im, rows, cols, duration, cell_width, cell_height) ==
    SaveAnimation(rows, cols, duration,
                  Boxes(rows, cols, cell_width, cell_height),
                  Frames(im, Boxes(rows, cols, cell_width, cell_height)))

----------------------------------------------------------------------------
(* finalize_assets.remove_background_chroma.  r, g, b are uint8 arrays and *)
(* bg_color holds Python ints in 0..255, so the differences, the squares   *)
(* and the sum are uint8 and wrap modulo 2^8; np.sqrt of a uint8 array is  *)
(* float16 (computed in float32 and rounded to 11 bits).                   *)

HalfBits == 11

U8(n) == n % 256

FinalizeSumSq(p, bg_color) ==
    LET dr == U8(p[1] - bg_color[1])
        dg == U8(p[2] - bg_color[2])
        db == U8(p[3] - bg_color[3])
    IN  U8(U8(U8(dr * dr) + U8(dg * dg)) + U8(db * db))

FinalizeDiff(p, bg_color) ==
    LET s == FSqrtP(FinalizeSumSq(p, bg_color), SingleBits)
    IN  FRound(s.neg, s.m, s.e, FALSE, HalfBits)

\* the position of the pixel (y, x) for position i = pixel (x, y) of a
\* square image
Transposed(im, i) == ((i - 1) % im.w) * im.w + ((i - 1) \div im.w) + 1

\* remove_background_chroma(img, bg_color, tolerance) of finalize_assets.py:
\* [raised, im].  r, g, b come from data.T, so mask has the shape (width,
\* height); its assignment to data[..., 3] of shape (height, width) raises
\* ValueError unless the image is square, and then gives the pixel (x, y)
\* the alpha computed for the pixel (y, x).
FinalizeRemoveBackgroundChroma(im, bg_color, tolerance) ==
    LET mask(p) == FGt(FinalizeDiff(p, bg_color), FFromInt(tolerance))
        tab == Tabulate(PixelSet(im), mask)
    IN  IF im.w # im.h THEN [raised |-> "ValueError", im |-> im]
        ELSE [raised |-> "none",
              im |-> [im EXCEPT !.px = [i \in Positions(im) |->
                        SetAlpha(im.px[i],
                                 IF Get(tab, im.px[Transposed(im, i)])
                                 THEN 255 ELSE 0)]]]

\* remove_black_background
FinalizeRemoveBlackBackground(im, tolerance) ==
    FinalizeRemoveBackgroundChroma(im, <<0, 0, 0>>, tolerance)

----------------------------------------------------------------------------
(* generate_assets.remove_background                                       *)

RECURSIVE RangeSeq(_, _, _)
\* range(start, stop, step) for step > 0
RangeSeq(start, stop, step) ==
    IF start >= stop THEN <<>> ELSE <<start>> \o RangeSeq(start + step, stop, step)

RGBOf(p) == <<p[1], p[2], p[3]>>

RECURSIVE EdgeSamples(_, _, _)
\* the two samples appended for each i of a range, along the top and bottom
\* rows (horizontal) or the left and right columns
EdgeSamples(im, is, horizontal) ==
    IF is = <<>> THEN <<>>
    ELSE (IF horizontal
          THEN <<RGBOf(At(im, is[1], 0)), RGBOf(At(im, is[1], im.h - 1))>>
          ELSE <<RGBOf(At(im, 0, is[1])), RGBOf(At(im, im.w - 1, is[1]))>>)
         \o EdgeSamples(im, Tail(is), horizontal)

\* samples, for an image of width and height at least 10
Samples(im) ==
    <<RGBOf(At(im, 0, 0)), RGBOf(At(im, im.w - 1, 0)),
      RGBOf(At(im, 0, im.h - 1)), RGBOf(At(im, im.w - 1, im.h - 1))>>
    \o EdgeSamples(im, RangeSeq(0, im.w, im.w \div 10), TRUE)
    \o EdgeSamples(im, RangeSeq(0, im.h, im.h \div 10), FALSE)

\* Counter(samples).most_common(1)[0][0]: the value of the highest count,
\* the one inserted first among equals
MostCommon(samples) ==
    LET count(v) == Cardinality({i \in 1 .. Len(samples) : samples[i] = v})
        best == CHOOSE i \in 1 .. Len(samples) :
                    /\ \A k \in 1 .. Len(samples) : count(samples[k]) <= count(samples[i])
                    /\ \A k \in 1 .. i - 1 : count(samples[k]) < count(samples[i])
    IN  samples[best]

Abs(n) == IF n < 0 THEN -n ELSE n

GenAssetsPixel(p, bg_color, tolerance) ==
    IF /\ Abs(p[1] - bg_color[1]) < tolerance
       /\ Abs(p[2] - bg_color[2]) < tolerance
       /\ Abs(p[3] - bg_color[3]) < tolerance
    THEN <<0, 0, 0, 0>>
    ELSE <<p[1], p[2], p[3], 255>>

\* remove_background(img, tolerance) of generate_assets.py: [raised, im].
\* range() raises ValueError for a step of 0, that is for a width or a
\* height below 10.
GenAssetsRemoveBackground(im, tolerance) ==
    IF im.w \div 10 = 0 \/ im.h \div 10 = 0
    THEN [raised |-> "ValueError", im |-> im]
    ELSE LET bg_color == MostCommon(Samples(im))
             F(p) == GenAssetsPixel(p, bg_color, tolerance)
         IN  [raised |-> "none", im |-> MapPixels(im, F)]

----------------------------------------------------------------------------
(* The state machine: a script loads an image and applies background       *)
(* removers to it, each to the output of the one before; or a single pixel *)
(* step of cleanup_assets is run on its own.                               *)

VARIABLES
    img,    \* the current image, NoImage before the load
    prev,   \* the image the last remover was given
    op,     \* the last operation and its arguments
    err,    \* the exception the last operation raised, or "none"
    passes, \* the number of removers applied since the load
    probe,  \* arguments and result of the last single-pixel step
    env,    \* what the last generator call found: libraries, rembg's outcome
    saved,  \* the output file of the last generator call
    first,  \* the first remover call since the load: arguments, input, result
    sheet,  \* what the last process_sprite_sheet call left
    batch,  \* the run of cleanup_assets.process_directory
    calls, \* calls of generate_image, requests sent, the value last returned
    gen, \* generate_assets: the provider calls of one generate_character / generate_ui_element
    orbit   \* cleanup_assets.remove_background applied again and again to its own output

vars == <<img, prev, op, err, passes, probe, env, saved, first, sheet, batch, calls, gen, orbit>>

MaxPasses == 2      \* removers applied to one loaded image

\* sizes of the images drawn as inputs
SmallSide == 2      \* side of the small square images
BigSide == 10       \* side of the bordered images

Opaque == 255

\* colours of the one-pixel images
ImageRGB ==
    { <<10, 10, 10>>, <<250, 250, 250>>, <<0, 255, 0>>, <<255, 0, 255>>,
      <<255, 0, 0>>, <<100, 150, 100>>, <<0, 215, 0>>, <<39, 255, 0>>,
      <<41, 255, 0>>, <<255, 65, 255>>, <<250, 60, 250>>, <<200, 50, 50>>,
      <<100, 100, 200>> }

\* colours given to the classifier
RGBSamples ==
    { <<0, 0, 0>>, <<20, 20, 20>>, <<0, 20, 0>>, <<21, 20, 20>>,
      <<240, 240, 240>>, <<240, 255, 240>>, <<0, 255, 0>>, <<255, 0, 255>>,
      <<255, 0, 0>>, <<100, 150, 100>>, <<0, 69, 46>>, <<0, 215, 0>>,
      <<39, 255, 0>>, <<41, 255, 0>>, <<255, 65, 255>>, <<200, 50, 50>>,
      <<100, 100, 200>>, <<90, 100, 120>>, <<0, 255, 255>>, <<100, 125, 100>>,
      <<255, 0, 128>>, <<255, 255, 0>> }

AlphaSamples == {0, 128, 255}

Px(rgb, a) == <<rgb[1], rgb[2], rgb[3], a>>

Uniform(side, p) == [w |-> side, h |-> side, px |-> [i \in 1 .. side * side |-> p]]

\* a square image of pixel p with pixel q in its first position
Spot(side, p, q) ==
    [w |-> side, h |-> side, px |-> [i \in 1 .. side * side |-> IF i = 1 THEN q ELSE p]]

\* a square image with a one-pixel border of pixel p around pixel q
Bordered(side, p, q) ==
    [w |-> side, h |-> side,
     px |-> [i \in 1 .. side * side |->
                LET x == (i - 1) % side
                    y == (i - 1) \div side
                IN  IF x = 0 \/ y = 0 \/ x = side - 1 \/ y = side - 1 THEN p ELSE q]]

SpotPixels ==
    { Px(<<200, 50, 50>>, 255), Px(<<0, 255, 0>>, 255), Px(<<0, 0, 0>>, 0) }

BorderPixels == { Px(<<0, 255, 0>>, 255) }
InnerPixels == { Px(<<200, 50, 50>>, 255), Px(<<255, 0, 0>>, 0) }

\* a one-row image of two pixels
Row2(p, q) == [w |-> 2, h |-> 1, px |-> <<p, q>>]

Images ==
    { Uniform(1, Px(rgb, a)) : rgb \in ImageRGB, a \in AlphaSamples }
    \cup { Row2(Px(<<255, 0, 0>>, 255), Px(<<0, 255, 0>>, 128)) }
    \cup { Spot(SmallSide, pq[1], pq[2]) :
             pq \in {x \in SpotPixels \X SpotPixels : x[1] # x[2]} }
    \cup { Bordered(BigSide, p, q) : p \in BorderPixels, q \in InnerPixels }

\* arguments the call sites and defaults give, and arguments with a
\* negative tolerance or fade
SpritesArgs ==
    { [key |-> <<255, 0, 255>>, tolerance |-> 60, fade |-> 15],
      [key |-> <<0, 255, 0>>, tolerance |-> 40, fade |-> 0],
      [key |-> <<255, 0, 255>>, tolerance |-> -10, fade |-> 15],
      [key |-> <<255, 0, 255>>, tolerance |-> 60, fade |-> -5] }
FinalizeArgs ==
    { [key |-> <<0, 255, 0>>, tolerance |-> 40],
      [key |-> <<0, 255, 0>>, tolerance |-> -1] }
BLACK_TOLERANCE == 30
GEN_TOLERANCE == 50

NoKey == <<0, 0, 0>>
Op(name, aggressive, key, tolerance, fade) ==
    [name |-> name, aggressive |-> aggressive, key |-> key,
     tolerance |-> tolerance, fade |-> fade]

Env(has_pil, remove_bg, has_rembg, outcome, result, decodable) ==
    [has_pil |-> has_pil, remove_bg |-> remove_bg, has_rembg |-> has_rembg,
     outcome |-> outcome, result |-> result, decodable |-> decodable]
NoEnv == Env(TRUE, FALSE, FALSE, "none", NoImage, TRUE)

\* the images rembg may return for an image: every pixel kept, the first
\* pixel cut out, every pixel cut out
CutOutAll(im) == [im EXCEPT !.px = [i \in Positions(im) |-> SetAlpha(im.px[i], 0)]]
Cutouts(im) ==
    { im,
      [im EXCEPT !.px = [i \in Positions(im) |-> IF i = 1 THEN SetAlpha(im.px[i], 0) ELSE im.px[i]]],
      CutOutAll(im) }

\* what a generator call on image im may find; a value the call does not
\* consult is left at its default. An unusable value of rembg carries
\* pixel data that cannot be loaded
Envs(im, outcomes) ==
    { Env(FALSE, rb, FALSE, "none", NoImage, TRUE) : rb \in BOOLEAN }
    \cup { Env(TRUE, FALSE, FALSE, "none", NoImage, TRUE) }
    \cup { Env(TRUE, TRUE, FALSE, "none", NoImage, d) : d \in BOOLEAN }
    \cup { Env(TRUE, TRUE, TRUE, o, r, TRUE) :
              o \in outcomes \cap {"image", "bytes"}, r \in Cutouts(im) }
    \cup { Env(TRUE, TRUE, TRUE, "raises", NoImage, d) : d \in BOOLEAN }
    \cup { Env(TRUE, TRUE, TRUE, "unusable", CutOutAll(im), d) : d \in BOOLEAN }

\* the output file: none, the image data as received ("raw"), or the PNG of
\* an image ("png")
File(kind, im) == [kind |-> kind, im |-> im]
NoFile == File("none", NoImage)

\* calls of generate_image for one output file
MaxCalls == 2

\* what the image service does with a request: a response with an image, a
\* response without one, or requests.exceptions.RequestException
Responses == {"image", "no_image", "RequestException"}

\* the calls of generate_image so far, the requests they sent and the value
\* the last one returned ("raised" when it ended in an exception)
Calls(n, requests, returned) == [n |-> n, requests |-> requests, returned |-> returned]
NoCalls == Calls(0, 0, "none")

\* variant: the output file is never found
ExistsNever(file) == FALSE

GeneratorOps == {"iso_generate", "talent_generate", "ui_save"}

\* a call of a remover: its arguments, the image given, the image returned
\* and the exception raised
Call(o, input, out, raised) == [op |-> o, input |-> input, out |-> out, raised |-> raised]
NoCall == Call(Op("none", FALSE, NoKey, 0, 0), NoImage, NoImage, "none")

NoProbe == [fn |-> "none", rgb |-> <<0, 0, 0>>, a |-> 0, remove |-> FALSE,
            confidence |-> FZero, out |-> 0]

\* cleanup_assets.process_directory: the files of the glob, the index of
\* the file the loop is at, the indices given to process_image in order,
\* and the two counters
MaxFiles == 3       \* PNG files in the directory

\* a PNG file: whether its stem holds "_preview", and whether opening,
\* processing or saving it raises
PngFiles == [preview_stem : BOOLEAN, fails : BOOLEAN]

RECURSIVE FileLists(_)
FileLists(n) ==
    IF n = 0 THEN {<<>>}
    ELSE FileLists(n - 1)
         \cup {Append(fs, f) : fs \in {x \in FileLists(n - 1) : Len(x) = n - 1},
                                f \in PngFiles}

Batch(phase, preview, files, i, log, processed, errors) ==
    [phase |-> phase, preview |-> preview, files |-> files, i |-> i, log |-> log,
     processed |-> processed, errors |-> errors]
NoBatch == Batch("idle", FALSE, <<>>, 0, <<>>, 0, 0)

\* process_image(png_path, preview=preview): an exception is caught and
\* gives False; a preview gives False; a saved image gives True
process_image(file, preview) ==
    IF file.fails THEN FALSE
    ELSE IF preview THEN FALSE
    ELSE TRUE

\* variant: only the files processed are counted
TallyProcessedOnly(b, ok) ==
    IF ok THEN [b EXCEPT !.processed = b.processed + 1] ELSE b

\* the counters after process_image returned ok
Tally(b, ok) ==
    IF ok THEN [b EXCEPT !.processed = b.processed + 1]
    ELSE IF ~b.preview THEN [b EXCEPT !.errors = b.errors + 1]
    ELSE b

\* generate_assets.py: generate_image_gemini, generate_with_imagen and their
\* callers generate_character and generate_ui_element

MaxRetries == 3     \* largest retries given to generate_image_gemini directly
DefaultRetries == 3 \* retries: int = 3

\* what one requests.post attempt comes to: an image that opens, a 200
\* response without image, another status code, an exception
Outcomes == {"image", "no_image", "api_error", "exception"}

GenFns == {"generate_image_gemini", "generate_character", "generate_ui_element"}

Event(kind, provider, attempt, outcome, secs) ==
    [kind |-> kind, provider |-> provider, attempt |-> attempt,
     outcome |-> outcome, secs |-> secs]
Request(provider, attempt, outcome) == Event("request", provider, attempt, outcome, 0)
Sleep(provider, attempt, secs) == Event("sleep", provider, attempt, "none", secs)

\* fn: the function called; phase: where it stands; retries: the retries of
\* generate_image_gemini; attempt: the loop variable; log: requests and sleeps
\* in order; gemini: what generate_image_gemini returned; sprite: the local
\* sprite / img; returned: the value returned; written: the file was saved
Gen(fn, phase, retries, attempt, log, gemini, sprite, returned, written) ==
    [fn |-> fn, phase |-> phase, retries |-> retries, attempt |-> attempt,
     log |-> log, gemini |-> gemini, sprite |-> sprite, returned |-> returned,
     written |-> written]
NoGen == Gen("none", "idle", 0, 0, <<>>, "pending", "unset", "none", FALSE)

\* variant: sleeps after the last attempt too
GeminiWaitAlways(attempt, retries) ==
    <<Sleep("gemini", attempt, Pow2(attempt + 1))>>

\* if attempt < retries - 1: time.sleep(2 ** (attempt + 1))
GeminiWait(attempt, retries) ==
    IF attempt < retries - 1
    THEN <<Sleep("gemini", attempt, Pow2(attempt + 1))>>
    ELSE <<>>

\* if attempt < retries - 1: time.sleep(2 ** attempt)
ImagenWait(attempt, retries) ==
    IF attempt < retries - 1
    THEN <<Sleep("imagen", attempt, Pow2(attempt))>>
    ELSE <<>>

\* variant: Imagen is asked whatever Gemini returned
ImagenAlways(sprite) == TRUE

\* if not sprite: an Image object is true, None is not
NeedImagen(sprite) == sprite = "None"

\* generate_image_gemini has returned value: the direct call is over, the
\* two callers go on with the test of sprite
AfterGemini(g, value) ==
    IF g.fn = "generate_image_gemini"
    THEN [g EXCEPT !.phase = "returned", !.gemini = value, !.returned = value]
    ELSE IF NeedImagen(value)
    THEN [g EXCEPT !.phase = "imagen", !.attempt = 0, !.gemini = value,
                   !.sprite = value]
    ELSE [g EXCEPT !.phase = "process", !.gemini = value, !.sprite = value]

\* one turn of the loop of generate_image_gemini
GeminiTurn(g, outcome) ==
    IF outcome = "image"
    THEN AfterGemini([g EXCEPT !.log = Append(g.log, Request("gemini", g.attempt, outcome))],
                     "image")
    ELSE [g EXCEPT !.log = Append(g.log, Request("gemini", g.attempt, outcome))
                              \o GeminiWait(g.attempt, g.retries),
                   !.attempt = g.attempt + 1]

\* one turn of the loop of generate_with_imagen
ImagenTurn(g, outcome) ==
    IF outcome = "image"
    THEN [g EXCEPT !.log = Append(g.log, Request("imagen", g.attempt, outcome)),
                   !.sprite = "image", !.phase = "process"]
    ELSE [g EXCEPT !.log = Append(g.log, Request("imagen", g.attempt, outcome))
                              \o ImagenWait(g.attempt, DefaultRetries),
                   !.attempt = g.attempt + 1]

\* remove_background(img) called on its own output, img = remove_background(img)

MaxRepeats == 13    \* passes over one image
StartAlphas == {0, 1, 128, 255}

\* the sampled colours and one of saturation 0.2, the least a screen colour has
OrbitSamples == RGBSamples \cup {<<80, 100, 80>>}

\* im: the image now; n: the passes made; trail: the alpha of the pixel
\* before the first pass and after each pass
Orbit(im, n, trail) == [im |-> im, n |-> n, trail |-> trail]
NoOrbit == Orbit(NoImage, 0, <<>>)

Init ==
    /\ img = NoImage
    /\ prev = NoImage
    /\ op = Op("init", FALSE, NoKey, 0, 0)
    /\ err = "none"
    /\ passes = 0
    /\ probe = NoProbe
    /\ env = NoEnv
    /\ saved = NoFile
    /\ first = NoCall
    /\ sheet = NoSheet
    /\ batch = NoBatch
    /\ calls = NoCalls
    /\ gen = NoGen
    /\ orbit = NoOrbit

\* an image is loaded and another remover may run
Loaded ==
    /\ op.name \notin {"init", "probe", "repeat", "sprite_sheet", "batch", "generate", "converge"} \cup GeneratorOps
    /\ passes < MaxPasses

Load ==
    /\ op.name = "init"
    /\ \E im \in Images : img' = im
    /\ prev' = NoImage
    /\ op' = Op("load", FALSE, NoKey, 0, 0)
    /\ UNCHANGED <<err, passes, probe, env, saved, first, sheet, batch, calls, gen, orbit>>

Cleanup ==
    /\ Loaded
    /\ \E aggressive \in BOOLEAN :
          /\ img' = CleanupRemoveBackground(img, aggressive)
          /\ op' = Op("cleanup", aggressive, NoKey, 0, 0)
    /\ prev' = img
    /\ err' = "none"
    /\ passes' = passes + 1
    /\ first' = IF passes = 0 THEN Call(op', img, img', err') ELSE first
    /\ UNCHANGED <<probe, env, saved, sheet, batch, calls, gen, orbit>>

IsoChroma ==
    /\ Loaded
    /\ img' = IsoRemoveBackgroundChroma(img, GREEN_THRESHOLD, OTHER_THRESHOLD)
    /\ op' = Op("iso_chroma", FALSE, NoKey, 0, 0)
    /\ prev' = img
    /\ err' = "none"
    /\ passes' = passes + 1
    /\ first' = IF passes = 0 THEN Call(op', img, img', err') ELSE first
    /\ UNCHANGED <<probe, env, saved, sheet, batch, calls, gen, orbit>>

TalentChroma ==
    /\ Loaded
    /\ img' = TalentRemoveBackgroundChroma(img, GREEN_THRESHOLD, OTHER_THRESHOLD)
    /\ op' = Op("talent_chroma", FALSE, NoKey, 0, 0)
    /\ prev' = img
    /\ err' = "none"
    /\ passes' = passes + 1
    /\ first' = IF passes = 0 THEN Call(op', img, img', err') ELSE first
    /\ UNCHANGED <<probe, env, saved, sheet, batch, calls, gen, orbit>>

SpritesChroma ==
    /\ Loaded
    /\ \E args \in SpritesArgs :
          /\ img' = SpritesRemoveBackgroundChroma(img, args.key, args.tolerance, args.fade)
          /\ op' = Op("sprites_chroma", FALSE, args.key, args.tolerance, args.fade)
    /\ prev' = img
    /\ err' = "none"
    /\ passes' = passes + 1
    /\ first' = IF passes = 0 THEN Call(op', img, img', err') ELSE first
    /\ UNCHANGED <<probe, env, saved, sheet, batch, calls, gen, orbit>>

FinalizeChroma ==
    /\ Loaded
    /\ \E args \in FinalizeArgs :
          /\ LET res == FinalizeRemoveBackgroundChroma(img, args.key, args.tolerance)
             IN  /\ img' = res.im
                 /\ err' = res.raised
          /\ op' = Op("finalize_chroma", FALSE, args.key, args.tolerance, 0)
    /\ prev' = img
    /\ passes' = passes + 1
    /\ first' = IF passes = 0 THEN Call(op', img, img', err') ELSE first
    /\ UNCHANGED <<probe, env, saved, sheet, batch, calls, gen, orbit>>

FinalizeBlack ==
    /\ Loaded
    /\ LET res == FinalizeRemoveBlackBackground(img, BLACK_TOLERANCE)
       IN  /\ img' = res.im
           /\ err' = res.raised
    /\ op' = Op("finalize_black", FALSE, <<0, 0, 0>>, BLACK_TOLERANCE, 0)
    /\ prev' = img
    /\ passes' = passes + 1
    /\ first' = IF passes = 0 THEN Call(op', img, img', err') ELSE first
    /\ UNCHANGED <<probe, env, saved, sheet, batch, calls, gen, orbit>>

GenAssets ==
    /\ Loaded
    /\ LET res == GenAssetsRemoveBackground(img, GEN_TOLERANCE)
       IN  /\ img' = res.im
           /\ err' = res.raised
    /\ op' = Op("gen_assets", FALSE, NoKey, GEN_TOLERANCE, 0)
    /\ prev' = img
    /\ passes' = passes + 1
    /\ first' = IF passes = 0 THEN Call(op', img, img', err') ELSE first
    /\ UNCHANGED <<probe, env, saved, sheet, batch, calls, gen, orbit>>

\* output_path.exists()
Exists(file) == file.kind # "none"

\* the image the service holds for the prompt: the one loaded, which the
\* first call, if there was one, was given
Served == IF op.name = "load" THEN img ELSE prev

\* generate_image of generate_isometric_assets.py: return if the file
\* exists; else send the request; from the image of the response, if it has
\* one: remove_background when asked, resize, save. The size asked for is
\* the size of the image, which resize copies.
IsoGenerateImage ==
    /\ op.name \in {"load", "iso_generate"}
    /\ calls.n < MaxCalls
    /\ IF Exists(saved)
       THEN /\ calls' = Calls(calls.n + 1, calls.requests, "True")
            /\ UNCHANGED <<img, prev, op, err, passes, env, saved, gen, orbit>>
       ELSE /\ \E response \in Responses :
                 IF response # "image"
                 THEN /\ calls' = Calls(calls.n + 1, calls.requests + 1, "False")
                      /\ env' = NoEnv
                      /\ err' = "none"
                      /\ UNCHANGED <<img, passes, saved, gen, orbit>>
                 ELSE /\ \E e \in Envs(Served, RembgOutcomes) :
                           /\ env' = e
                           /\ IF ~e.has_pil
                              THEN /\ img' = Served /\ err' = "none"
                                   /\ saved' = File("raw", Served)
                              ELSE IF ~e.remove_bg
                              THEN /\ img' = Served /\ err' = "none"
                                   /\ saved' = File("png", Served)
                              ELSE LET res == IsoRemoveBackground(Served, e.has_rembg,
                                                  e.outcome, e.result, e.decodable)
                                   IN  /\ img' = res.im
                                       /\ err' = res.raised
                                       /\ saved' = IF res.raised = "none"
                                                   THEN File("png", res.im)
                                                   ELSE saved
                      /\ calls' = Calls(calls.n + 1, calls.requests + 1,
                                        IF err' = "none" THEN "True" ELSE "raised")
                      /\ passes' = passes + 1
            /\ op' = Op("iso_generate", FALSE, NoKey, 0, 0)
            /\ prev' = Served
    /\ UNCHANGED <<probe, first, sheet, batch, gen, orbit>>

\* generate_image of generate_talent_assets.py, which always removes the
\* background
TalentGenerateImage ==
    /\ op.name \in {"load", "talent_generate"}
    /\ calls.n < MaxCalls
    /\ IF Exists(saved)
       THEN /\ calls' = Calls(calls.n + 1, calls.requests, "True")
            /\ UNCHANGED <<img, prev, op, err, passes, env, saved, gen, orbit>>
       ELSE /\ \E response \in Responses :
                 IF response # "image"
                 THEN /\ calls' = Calls(calls.n + 1, calls.requests + 1, "False")
                      /\ env' = NoEnv
                      /\ err' = "none"
                      /\ UNCHANGED <<img, passes, saved, gen, orbit>>
                 ELSE /\ \E e \in {x \in Envs(Served, RembgOutcomes) : x.remove_bg} :
                           /\ env' = e
                           /\ IF ~e.has_pil
                              THEN /\ img' = Served /\ err' = "none"
                                   /\ saved' = File("raw", Served)
                              ELSE LET res == TalentRemoveBackground(Served, e.has_rembg,
                                                  e.outcome, e.result, e.decodable)
                                   IN  /\ img' = res.im
                                       /\ err' = res.raised
                                       /\ saved' = IF res.raised = "none"
                                                   THEN File("png", res.im)
                                                   ELSE saved
                      /\ calls' = Calls(calls.n + 1, calls.requests + 1,
                                        IF err' = "none" THEN "True" ELSE "raised")
                      /\ passes' = passes + 1
            /\ op' = Op("talent_generate", FALSE, NoKey, 0, 0)
            /\ prev' = Served
    /\ UNCHANGED <<probe, first, sheet, batch, gen, orbit>>

\* rembg is given an image and returns an image when it returns
UiOutcomes == {"image", "raises", "unusable"}

\* save_image of generate_ui_assets.py on the image data of the response
UiSaveImage ==
    /\ op.name = "load"
    /\ saved = NoFile
    /\ \E e \in Envs(img, UiOutcomes) :
          /\ env' = e
          /\ IF ~e.remove_bg
             THEN img' = img /\ err' = "none" /\ saved' = File("raw", img)
             ELSE LET res == UiRemoveBackground(img, e.has_pil, e.has_rembg, e.outcome,
                                                e.result, e.decodable)
                  IN  /\ img' = res.im
                      /\ err' = res.raised
                      /\ saved' = IF res.raised # "none" THEN saved
                                  ELSE IF e.has_pil THEN File("png", res.im)
                                  ELSE File("raw", res.im)
    /\ op' = Op("ui_save", FALSE, NoKey, 0, 0)
    /\ prev' = img
    /\ passes' = passes + 1
    /\ UNCHANGED <<probe, first, sheet, batch, calls, gen, orbit>>

\* grids and durations given to process_sprite_sheet: its defaults, grids
\* that divide the sides of the images, and a grid without columns
GridArgs ==
    { [rows |-> 3, cols |-> 3, duration |-> 100],
      [rows |-> 2, cols |-> 5, duration |-> 100],
      [rows |-> 1, cols |-> 2, duration |-> 50],
      [rows |-> 2, cols |-> 2, duration |-> 100],
      [rows |-> 3, cols |-> 0, duration |-> 100] }

\* the grids whose cells have pixels in image im, and the grid without
\* columns
SheetArgs(im) ==
    { g \in GridArgs : g.cols = 0 \/ (g.cols <= im.w /\ g.rows <= im.h) }

\* sheets opened by process_sprite_sheet on its own: plain opaque images of
\* every size up to MaxSheetSide, sliced by every grid up to MaxGrid
MaxSheetSide == 5   \* side of the plain sheets
MaxGrid == 4        \* rows and columns of the grids applied to them

PlainSheets ==
    { [w |-> w, h |-> h, px |-> [i \in 1 .. w * h |-> <<255, 0, 0, 255>>]] :
         w \in 1 .. MaxSheetSide, h \in 1 .. MaxSheetSide }

PlainGrids == [rows : 1 .. MaxGrid, cols : 1 .. MaxGrid, duration : {100}]

\* the images process_sprite_sheet may find at image_path: none or a plain
\* sheet when called first, the loaded image otherwise
SheetInputs == IF op.name = "init" THEN {NoImage} \cup PlainSheets ELSE {img}

SheetGrids(im) ==
    IF im = NoImage THEN GridArgs
    ELSE IF op.name = "init" THEN PlainGrids
    ELSE SheetArgs(im)

\* process_sprite_sheet(image_path, output_path, rows, cols, duration):
\* without a file at image_path it returns at once; otherwise it removes
\* the background, slices and saves, and an exception (the division by a
\* cols of 0, the encoder refusing frames without pixels) is caught and
\* printed
ProcessSpriteSheet ==
    /\ op.name \in {"init", "load"}
    /\ \E im \in SheetInputs : \E g \in SheetGrids(im), saves \in BOOLEAN :
          IF im = NoImage
          THEN /\ sheet' = Sheet(g.rows, g.cols, g.duration, <<>>, <<>>, FALSE, <<>>, <<>>, -1)
               /\ UNCHANGED <<img, prev, err>>
          ELSE /\ img' = SpritesRemoveBackgroundChroma(im, <<255, 0, 255>>, 60, 15)
               /\ prev' = im
               /\ IF g.cols = 0 \/ g.rows = 0
                  THEN /\ err' = "ZeroDivisionError"
                       /\ sheet' = Sheet(g.rows, g.cols, g.duration, <<>>, <<>>,
                                         FALSE, <<>>, <<>>, -1)
                  ELSE IF saves \/ (CellSide(im.w, g.cols) > 0 /\ CellSide(im.h, g.rows) > 0)
                  THEN /\ err' = "none"
                       /\ sheet' = SliceAndSave(img', g.rows, g.cols, g.duration,
                                                CellSide(im.w, g.cols),
                                                CellSide(im.h, g.rows))
                  ELSE /\ err' = "Exception"
                       /\ sheet' = SliceUnsaved(img', g.rows, g.cols, g.duration,
                                                CellSide(im.w, g.cols),
                                                CellSide(im.h, g.rows))
    /\ op' = Op("sprite_sheet", FALSE, <<255, 0, 255>>, 60, 15)
    /\ UNCHANGED <<passes, probe, env, saved, first, batch, calls, gen, orbit>>

\* variant: a remover that keeps the image it returned last and returns it
\* again
ApplyCached(o, im) == [raised |-> err, im |-> img]

\* the remover of a call on an image
Apply(o, im) ==
    CASE o.name = "cleanup" -> Returned(CleanupRemoveBackground(im, o.aggressive))
      [] o.name = "iso_chroma" ->
            Returned(IsoRemoveBackgroundChroma(im, GREEN_THRESHOLD, OTHER_THRESHOLD))
      [] o.name = "talent_chroma" ->
            Returned(TalentRemoveBackgroundChroma(im, GREEN_THRESHOLD, OTHER_THRESHOLD))
      [] o.name = "sprites_chroma" ->
            Returned(SpritesRemoveBackgroundChroma(im, o.key, o.tolerance, o.fade))
      [] o.name = "finalize_chroma" ->
            FinalizeRemoveBackgroundChroma(im, o.key, o.tolerance)
      [] o.name = "finalize_black" -> FinalizeRemoveBlackBackground(im, o.tolerance)
      [] o.name = "gen_assets" -> GenAssetsRemoveBackground(im, o.tolerance)

\* the first remover called since the load is called once more, with the
\* arguments and on the image of its first call, after whatever was
\* processed since
Repeat ==
    /\ first # NoCall
    /\ op.name \notin {"repeat", "sprite_sheet"} \cup GeneratorOps
    /\ LET res == Apply(first.op, first.input)
       IN  /\ img' = res.im
           /\ err' = res.raised
    /\ prev' = first.input
    /\ op' = [first.op EXCEPT !.name = "repeat"]
    /\ UNCHANGED <<passes, probe, env, saved, first, sheet, batch, calls, gen, orbit>>

\* confidences given to the single-pixel step: the ends of [0, 1], dyadic
\* values, values the classifier returns (0.4, 2/3) and the float next
\* above 0.5
ConfSamples ==
    { FZero, FFromInt(1), Lit(1, 2), Lit(1, 4), Lit(3, 4), Lit(4, 10), Lit(2, 3),
      FCanon(FALSE, BAdd(BShl(<<1>>, 52), <<1>>), -53) }

AlphaSteps == {0, 1, 2, 3, 4, 5, 127, 128, 254, 255}

ClassifyProbe(rgb, c) ==
    [fn |-> "should_remove_pixel", rgb |-> rgb, a |-> 0,
     remove |-> c.remove, confidence |-> c.confidence, out |-> 0]

\* should_remove_pixel called on its own
ProbeClassify ==
    /\ op.name = "init"
    /\ \E rgb \in RGBSamples :
          probe' = ClassifyProbe(rgb, should_remove_pixel(rgb[1], rgb[2], rgb[3]))
    /\ op' = Op("probe", FALSE, NoKey, 0, 0)
    /\ UNCHANGED <<img, prev, err, passes, env, saved, first, sheet, batch, calls, gen, orbit>>

PixelStepProbe(rgb, a, c) ==
    [fn |-> "pixel_step", rgb |-> rgb, a |-> a,
     remove |-> c.remove, confidence |-> c.confidence,
     out |-> AlphaByte(NewAlpha(a, c.remove, c.confidence))]

\* one iteration of the pixel loop of cleanup_assets.remove_background and
\* the final conversion, for one pixel (aggressive = False); a transparent
\* pixel is not classified
ProbePixelStep ==
    /\ op.name = "init"
    /\ \E rgb \in RGBSamples, a \in AlphaSteps :
          probe' = PixelStepProbe(rgb, a,
                      IF a = 0 THEN [remove |-> FALSE, confidence |-> FZero]
                      ELSE should_remove_pixel(rgb[1], rgb[2], rgb[3]))
    /\ op' = Op("probe", FALSE, NoKey, 0, 0)
    /\ UNCHANGED <<img, prev, err, passes, env, saved, first, sheet, batch, calls, gen, orbit>>

\* the same iteration with the classification given
ProbeComposite ==
    /\ op.name = "init"
    /\ \E a \in Byte, c \in ConfSamples, remove \in BOOLEAN :
          /\ ~remove => c = FZero
          /\ probe' = [fn |-> "composite", rgb |-> <<0, 0, 0>>, a |-> a,
                        remove |-> remove, confidence |-> c,
                        out |-> AlphaByte(NewAlpha(a, remove, c))]
    /\ op' = Op("probe", FALSE, NoKey, 0, 0)
    /\ UNCHANGED <<img, prev, err, passes, env, saved, first, sheet, batch, calls, gen, orbit>>

\* channel values given to the colour conversion on its own
HsvGrid == {0, 1, 64, 127, 128, 255}

\* rgb_to_hsv called on its own
ProbeHsv ==
    /\ op.name = "init"
    /\ \E r \in HsvGrid, g \in HsvGrid, b \in HsvGrid :
          probe' = [fn |-> "rgb_to_hsv", rgb |-> <<r, g, b>>, a |-> 0,
                    remove |-> FALSE, confidence |-> FZero,
                    out |-> rgb_to_hsv(r, g, b)]
    /\ op' = Op("probe", FALSE, NoKey, 0, 0)
    /\ UNCHANGED <<img, prev, err, passes, env, saved, first, sheet, batch, calls, gen, orbit>>

\* colours given to both classifiers: the samples, the grid, and greens and
\* blues of saturation 0.2 to 0.25, between the two thresholds
ClassifierSamples ==
    OrbitSamples \cup (HsvGrid \X HsvGrid \X HsvGrid)
       \cup {<<75, 100, 75>>, <<76, 100, 76>>, <<75, 75, 100>>, <<78, 100, 100>>}

\* cleanup_assets.should_remove_pixel and generate_ui_assets.should_remove_pixel
\* called on the same colour
ProbeClassifiers ==
    /\ op.name = "init"
    /\ \E rgb \in ClassifierSamples :
          probe' = [fn |-> "classifiers", rgb |-> rgb, a |-> 0,
                    remove |-> should_remove_pixel(rgb[1], rgb[2], rgb[3]).remove,
                    confidence |-> should_remove_pixel(rgb[1], rgb[2], rgb[3]).confidence,
                    out |-> UiShouldRemovePixel(rgb[1], rgb[2], rgb[3])]
    /\ op' = Op("probe", FALSE, NoKey, 0, 0)
    /\ UNCHANGED <<img, prev, err, passes, env, saved, first, sheet, batch, calls, gen, orbit>>

\* channel values of the pixels given to the chroma key on their own
KeyRamp == 0 .. 100
KeyOffsets == {0, 5}

\* process_sprites.remove_background_chroma with its default arguments on
\* one pixel, at distance sqrt(g^2 + 2*off^2) from the magenta key
ProbeSprites ==
    /\ op.name = "init"
    /\ \E g \in KeyRamp, off \in KeyOffsets, a \in {0, Opaque} :
          LET p == <<255 - off, g, 255 - off, a>>
          IN  probe' = [fn |-> "sprites_chroma", rgb |-> RGBOf(p), a |-> a,
                        remove |-> FALSE, confidence |-> FZero,
                        out |-> FTrunc(SpritesNewAlpha(p, <<255, 0, 255>>, 60, 15)) % 256]
    /\ op' = Op("probe", FALSE, NoKey, 0, 0)
    /\ UNCHANGED <<img, prev, err, passes, env, saved, first, sheet, batch, calls, gen, orbit>>

\* process_directory(asset_dir, preview): the glob is listed
ProcessDirectory ==
    /\ op.name = "init"
    /\ batch.phase = "idle"
    /\ \E files \in FileLists(MaxFiles), preview \in BOOLEAN :
          batch' = Batch("running", preview, files, 1, <<>>, 0, 0)
    /\ op' = Op("batch", FALSE, NoKey, 0, 0)
    /\ UNCHANGED <<img, prev, err, passes, probe, env, saved, first, sheet, calls, gen, orbit>>

\* one turn of the loop over png_files
ProcessDirectoryFile ==
    /\ op.name = "batch"
    /\ batch.phase = "running"
    /\ batch.i <= Len(batch.files)
    /\ batch' =
          IF batch.files[batch.i].preview_stem
          THEN [batch EXCEPT !.i = batch.i + 1]
          ELSE [Tally(batch, process_image(batch.files[batch.i], batch.preview))
                   EXCEPT !.i = batch.i + 1, !.log = Append(batch.log, batch.i)]
    /\ UNCHANGED <<img, prev, op, err, passes, probe, env, saved, first, sheet, calls, gen, orbit>>

\* the loop is over: return processed, errors
ProcessDirectoryReturn ==
    /\ op.name = "batch"
    /\ batch.phase = "running"
    /\ batch.i > Len(batch.files)
    /\ batch' = [batch EXCEPT !.phase = "returned"]
    /\ UNCHANGED <<img, prev, op, err, passes, probe, env, saved, first, sheet, calls, gen, orbit>>

\* generate_image_gemini(prompt, retries), generate_character(class_id) or
\* generate_ui_element(element_id) is called; an unknown id returns False
GenerateStart ==
    /\ op.name = "init"
    /\ gen.phase = "idle"
    /\ \E fn \in GenFns, known \in BOOLEAN, retries \in 0..MaxRetries :
          gen' = IF fn = "generate_image_gemini"
                 THEN Gen(fn, "gemini", retries, 0, <<>>, "pending", "unset", "none", FALSE)
                 ELSE IF known
                 THEN Gen(fn, "gemini", DefaultRetries, 0, <<>>, "pending", "unset",
                          "none", FALSE)
                 ELSE Gen(fn, "returned", DefaultRetries, 0, <<>>, "pending", "unset",
                          "False", FALSE)
    /\ op' = Op("generate", FALSE, NoKey, 0, 0)
    /\ UNCHANGED <<img, prev, err, passes, probe, env, saved, first, sheet, batch, calls, orbit>>

\* for attempt in range(retries): one request, and the sleep after a failure
GeminiAttempt ==
    /\ op.name = "generate"
    /\ gen.phase = "gemini"
    /\ gen.attempt < gen.retries
    /\ \E outcome \in Outcomes : gen' = GeminiTurn(gen, outcome)
    /\ UNCHANGED <<img, prev, op, err, passes, probe, env, saved, first, sheet, batch, calls, orbit>>

\* the loop of generate_image_gemini is over: return None
GeminiReturnNone ==
    /\ op.name = "generate"
    /\ gen.phase = "gemini"
    /\ gen.attempt >= gen.retries
    /\ gen' = AfterGemini(gen, "None")
    /\ UNCHANGED <<img, prev, op, err, passes, probe, env, saved, first, sheet, batch, calls, orbit>>

\* one turn of the loop of generate_with_imagen(prompt)
ImagenAttempt ==
    /\ op.name = "generate"
    /\ gen.phase = "imagen"
    /\ gen.attempt < DefaultRetries
    /\ \E outcome \in Outcomes : gen' = ImagenTurn(gen, outcome)
    /\ UNCHANGED <<img, prev, op, err, passes, probe, env, saved, first, sheet, batch, calls, orbit>>

\* the loop of generate_with_imagen is over: return None
ImagenReturnNone ==
    /\ op.name = "generate"
    /\ gen.phase = "imagen"
    /\ gen.attempt >= DefaultRetries
    /\ gen' = [gen EXCEPT !.sprite = "None", !.phase = "process"]
    /\ UNCHANGED <<img, prev, op, err, passes, probe, env, saved, first, sheet, batch, calls, orbit>>

\* if sprite: resize, remove_background, glow, save, return True; an
\* exception there is not caught. Otherwise return False
GenerateFinish ==
    /\ op.name = "generate"
    /\ gen.phase = "process"
    /\ \E ok \in BOOLEAN :
          gen' = IF gen.sprite = "None"
                 THEN [gen EXCEPT !.phase = "returned", !.returned = "False"]
                 ELSE IF ok
                 THEN [gen EXCEPT !.phase = "returned", !.returned = "True",
                                  !.written = TRUE]
                 ELSE [gen EXCEPT !.phase = "returned", !.returned = "raised"]
    /\ UNCHANGED <<img, prev, op, err, passes, probe, env, saved, first, sheet, batch, calls, orbit>>

\* a 1x1 image is opened to be cleaned repeatedly
RepeatStart ==
    /\ op.name = "init"
    /\ orbit.n = 0
    /\ \E rgb \in OrbitSamples, a \in StartAlphas :
          orbit' = Orbit(Uniform(1, Px(rgb, a)), 0, <<a>>)
    /\ op' = Op("converge", FALSE, NoKey, 0, 0)
    /\ UNCHANGED <<img, prev, err, passes, probe, env, saved, first, sheet, batch, calls, gen>>

\* one more pass: img = remove_background(img)
RepeatPass ==
    /\ op.name = "converge"
    /\ orbit.n < MaxRepeats
    /\ orbit' = Orbit(CleanupRemoveBackground(orbit.im, FALSE), orbit.n + 1,
                      Append(orbit.trail,
                             CleanupRemoveBackground(orbit.im, FALSE).px[1][4]))
    /\ UNCHANGED <<img, prev, op, err, passes, probe, env, saved, first, sheet, batch, calls, gen>>

Next ==
    \/ Load
    \/ Cleanup
    \/ IsoChroma
    \/ TalentChroma
    \/ SpritesChroma
    \/ FinalizeChroma
    \/ FinalizeBlack
    \/ GenAssets
    \/ IsoGenerateImage
    \/ TalentGenerateImage
    \/ UiSaveImage
    \/ Repeat
    \/ ProcessSpriteSheet
    \/ ProcessDirectory
    \/ ProcessDirectoryFile
    \/ ProcessDirectoryReturn
    \/ GenerateStart
    \/ GeminiAttempt
    \/ GeminiReturnNone
    \/ ImagenAttempt
    \/ ImagenReturnNone
    \/ GenerateFinish
    \/ RepeatStart
    \/ RepeatPass
    \/ ProbeClassify
    \/ ProbePixelStep
    \/ ProbeComposite
    \/ ProbeSprites
    \/ ProbeHsv
    \/ ProbeClassifiers

Spec == Init /\ [][Next]_vars

----------------------------------------------------------------------------
(* Properties                                                              *)

\* the last operation was cleanup_assets.remove_background(aggressive=False)
PlainCleanup == op.name = "cleanup" /\ ~op.aggressive

\* the last step was one iteration of the pixel loop of cleanup_assets
PixelProbe == probe.fn \in {"pixel_step", "composite"}

\* C1: in cleanup_assets.remove_background (aggressive=False) and in the
\* green-threshold remove_background_chroma of generate_isometric_assets and
\* generate_talent_assets, a pixel whose source alpha is 0 has output alpha
\* 0, whatever its RGB value and whatever confidence its classification has.
C1_TransparentStaysTransparent ==
    /\ (PlainCleanup \/ op.name \in {"iso_chroma", "talent_chroma"}) =>
          \A i \in Positions(prev) : prev.px[i][4] = 0 => img.px[i][4] = 0
    /\ (PixelProbe /\ probe.a = 0) => probe.out = 0

\* a transparent pixel of a colour no rule removes went through the plain
\* cleanup
C1_Witness ==
    /\ PlainCleanup
    /\ \E i \in Positions(prev) :
          prev.px[i] = <<200, 50, 50, 0>> /\ img.px[i][4] = 0

\* C2 (as stated): process_sprites.remove_background_chroma,
\* finalize_assets.remove_background_chroma and
\* generate_assets.remove_background give output alpha 0 to every pixel
\* whose source alpha is 0.
C2_NoRevival ==
    (op.name \in {"sprites_chroma", "finalize_chroma", "finalize_black", "gen_assets"}
        /\ err = "none") =>
       \A i \in Positions(prev) : prev.px[i][4] = 0 => img.px[i][4] = 0

\* C3: for a source alpha a and confidences c1 < c2, the output alpha of the
\* pixel loop of cleanup_assets.remove_background for (a, c2) is at most the
\* output alpha for (a, c1).
C3_ConfidenceMonotone ==
    PixelProbe =>
       \A c2 \in ConfSamples :
          FGt(c2, probe.confidence) =>
             AlphaByte(NewAlpha(probe.a, TRUE, c2)) <= probe.out

\* an opaque pixel composited with confidence 1/4: larger sampled
\* confidences exist and the output is neither end of the range
C3_Witness ==
    /\ probe.fn = "composite" /\ probe.remove
    /\ probe.a = 255 /\ probe.confidence = Lit(1, 4) /\ probe.out = 191

\* C4: in the pixel loop of cleanup_assets.remove_background
\* (aggressive=False), a pixel of source alpha a > 0 classified with
\* confidence 1.0 gets output alpha 0, and a pixel classified as not
\* background gets output alpha a, for every a in 1..255.
C4_Endpoints ==
    /\ (PixelProbe /\ probe.a > 0) =>
          /\ (probe.remove /\ probe.confidence = FFromInt(1)) => probe.out = 0
          /\ ~probe.remove => probe.out = probe.a
    /\ PlainCleanup =>
          \A i \in Positions(prev) :
             LET p == prev.px[i]
                 c == should_remove_pixel(p[1], p[2], p[3])
             IN  p[4] > 0 =>
                    /\ (c.remove /\ c.confidence = FFromInt(1)) => img.px[i][4] = 0
                    /\ ~c.remove => img.px[i][4] = p[4]

\* a half-transparent pixel that is not background keeps its alpha
C4_Witness ==
    /\ probe.fn = "composite" /\ ~probe.remove
    /\ probe.a = 128 /\ probe.out = 128

\* C5 (as stated): for a pixel of source alpha a > 0 removed with confidence
\* c, the output alpha of cleanup_assets.remove_background is
\* round((1 - c) * (a / 255)) * 255, the rounding applied before the scaling
\* by 255 (so the value is 0 or 255).
C5_Rule2AsWritten ==
    (probe.fn = "pixel_step" /\ probe.a > 0 /\ probe.remove) =>
       LET x == FMul(FSub(FFromInt(1), probe.confidence),
                     FDiv(FFromInt(probe.a), FFromInt(255)))
       IN  probe.out = IF FGt(x, Lit(1, 2)) THEN 255 ELSE 0

\* C5 (amended): the output alpha is the integer part of (1 - c) * a, the
\* fraction scaled by 255 and then truncated; a product within 2^-16 below
\* an integer gives that integer, because the single-precision array rounds
\* it up.  Here (1 - c) * a is computed exactly.
C5_ScaledThenTruncated ==
    (PixelProbe /\ probe.a > 0 /\ probe.remove) =>
       LET c == probe.confidence
           ca == FCanon(FALSE, BMulSmall(c.m, probe.a), c.e)
           x == FExactAdd(FFromInt(probe.a), FNeg(ca))
       IN  probe.out = FTrunc(FExactAdd(x, Lit(1, 65536)))

\* a half-transparent pixel removed with confidence 2/3 gets alpha 42, a
\* value Rule 2 as written cannot give
C5_Witness ==
    /\ probe.fn = "pixel_step" /\ probe.rgb = <<100, 150, 100>>
    /\ probe.a = 128 /\ probe.remove /\ probe.out = 42

\* C6: for every pixel of every input image the output alpha of
\* cleanup_assets.remove_background (aggressive=False) is at most the source
\* alpha, also when the input is the output of an earlier pass.
C6_AlphaNeverGrows ==
    /\ PlainCleanup =>
          \A i \in Positions(prev) : img.px[i][4] <= prev.px[i][4]
    /\ (PixelProbe /\ (probe.remove \/ probe.confidence = FZero)) =>
          probe.out <= probe.a

\* a second pass over the output of a first pass lowers a partly
\* transparent pixel again
C6_Witness ==
    /\ PlainCleanup /\ passes = 2
    /\ \E i \in Positions(prev) :
          /\ prev.px[i] = <<100, 150, 100, 85>>
          /\ img.px[i][4] > 0 /\ img.px[i][4] < 85

\* C7: process_sprites.remove_background_chroma with key K, tolerance T and
\* feather F > 0 gives a pixel at distance d from K alpha 0 when d < T,
\* alpha 255 when d >= T + F, and between them the graded alpha
\* floor(255 * (d - T) / F), proportional to (d - T) / F.  The distance is
\* compared through its square, and the graded alpha k through
\* (k*F + 255*T)^2 <= 255^2 * d^2 < ((k + 1)*F + 255*T)^2, for T >= 0.
C7_ThreeZones ==
    /\ (op.name = "sprites_chroma" /\ op.fade > 0 /\ op.tolerance >= 0) =>
          \A i \in Positions(prev) :
             LET d2 == SumSq(prev.px[i], op.key)
                 T == op.tolerance
                 F == op.fade
                 k == img.px[i][4]
                 lo == k * F + 255 * T
                 hi == (k + 1) * F + 255 * T
             IN  /\ d2 < T * T => k = 0
                 /\ d2 >= (T + F) * (T + F) => k = 255
                 /\ (d2 >= T * T /\ d2 < (T + F) * (T + F)) =>
                       /\ lo * lo <= 255 * 255 * d2
                       /\ 255 * 255 * d2 < hi * hi
                 /\ RGBOf(img.px[i]) = RGBOf(prev.px[i])
    /\ probe.fn = "sprites_chroma" =>
          LET d2 == SumSq(probe.rgb, <<255, 0, 255>>)
              k == probe.out
              lo == k * 15 + 255 * 60
              hi == (k + 1) * 15 + 255 * 60
          IN  /\ d2 < 60 * 60 => k = 0
              /\ d2 >= 75 * 75 => k = 255
              /\ (d2 >= 60 * 60 /\ d2 < 75 * 75) =>
                    /\ lo * lo <= 255 * 255 * d2
                    /\ 255 * 255 * d2 < hi * hi

\* a pixel at distance sqrt(3650), about 60.42, from magenta lies in the
\* fade band of tolerance 60 and feather 15 and gets alpha 7
C7_Witness ==
    /\ op.name = "sprites_chroma" /\ op.fade = 15 /\ op.tolerance = 60
    /\ \E i \in Positions(prev) :
          /\ RGBOf(prev.px[i]) = <<250, 60, 250>>
          /\ img.px[i][4] = 7

\* C8 (as stated): with key (0,255,0), tolerance 40 and no feather band,
\* finalize_assets.remove_background_chroma and
\* process_sprites.remove_background_chroma(fade=0) give alpha 0 to every
\* pixel at distance below 40 from the key and alpha 255 to every pixel at
\* distance 40 or more.
C8_BoundaryExact ==
    (/\ op.name \in {"finalize_chroma", "sprites_chroma"} /\ err = "none"
     /\ op.key = <<0, 255, 0>> /\ op.tolerance = 40 /\ op.fade = 0) =>
       \A i \in Positions(prev) :
          LET d2 == SumSq(prev.px[i], op.key)
          IN  /\ d2 < 40 * 40 => img.px[i][4] = 0
              /\ d2 >= 40 * 40 => img.px[i][4] = 255

\* C9 (as stated): the distance of finalize_assets.remove_background_chroma
\* is the Euclidean distance of the pixel from the key: the sum of squared
\* channel differences is not reduced modulo 2^8, and a pixel farther from
\* the key than the tolerance is kept opaque.
C9_TrueEuclidean ==
    (op.name \in {"finalize_chroma", "finalize_black"} /\ err = "none") =>
       \A i \in Positions(prev) :
          LET d2 == SumSq(prev.px[i], op.key)
          IN  /\ FinalizeSumSq(prev.px[i], op.key) = d2
              /\ d2 > op.tolerance * op.tolerance => img.px[i][4] = 255

\* C10: should_remove_pixel classifies a pixel whose channels are all at
\* most 20, or all at least 240, as background with confidence exactly 1.0,
\* whatever its hue and saturation.
C10_NearBlackWhiteFirst ==
    (/\ probe.fn = "should_remove_pixel"
     /\ \/ \A ch \in 1 .. 3 : probe.rgb[ch] <= 20
        \/ \A ch \in 1 .. 3 : probe.rgb[ch] >= 240) =>
       probe.remove /\ probe.confidence = FFromInt(1)

\* (0, 20, 0) is near black on the threshold and its hue (120) and
\* saturation (1.0) lie in the green band
C10_Witness ==
    /\ probe.fn = "should_remove_pixel" /\ probe.rgb = <<0, 20, 0>>
    /\ probe.remove /\ probe.confidence = FFromInt(1)
    /\ LET hsv == rgb_to_hsv(0, 20, 0)
           green == REMOVE_COLORS.green_screen
       IN  /\ FLe(FFromInt(green.hue_range[1]), hsv.h)
           /\ FLe(hsv.h, FFromInt(green.hue_range[2]))
           /\ FGe(hsv.s, Lit(green.sat_min[1], green.sat_min[2]))

\* C11: for a pixel that is neither near-black nor near-white,
\* cleanup_assets.should_remove_pixel returns (True, min(1.0, s/0.5)) exactly
\* when the hue lies in the green band [80, 160] or the blue band [180, 260]
\* (bounds included), s >= 0.2 and v >= 0.2, and (False, 0.0) otherwise; so
\* the confidence lies in [0, 1] and is positive only for background.
C11_HueBandRule ==
    (/\ probe.fn \in {"should_remove_pixel", "pixel_step"}
     /\ probe.fn = "pixel_step" => probe.a > 0
     /\ \E ch \in 1 .. 3 : probe.rgb[ch] > 20
     /\ \E ch \in 1 .. 3 : probe.rgb[ch] < 240) =>
       LET hsv == rgb_to_hsv(probe.rgb[1], probe.rgb[2], probe.rgb[3])
           inBand == /\ \E band \in {<<80, 160>>, <<180, 260>>} :
                           /\ FLe(FFromInt(band[1]), hsv.h)
                           /\ FLe(hsv.h, FFromInt(band[2]))
                     /\ FGe(hsv.s, Lit(2, 10))
                     /\ FGe(hsv.v, Lit(2, 10))
       IN  /\ inBand => /\ probe.remove
                        /\ probe.confidence = FMin(FFromInt(1), FDiv(hsv.s, Lit(1, 2)))
           /\ ~inBand => ~probe.remove /\ probe.confidence = FZero
           /\ FLe(FZero, probe.confidence) /\ FLe(probe.confidence, FFromInt(1))
           /\ FGt(probe.confidence, FZero) => probe.remove

\* cyan (0, 255, 255) has hue exactly 180, the lower bound of the blue band,
\* and is removed
C11_Witness ==
    /\ probe.fn = "should_remove_pixel" /\ probe.rgb = <<0, 255, 255>>
    /\ rgb_to_hsv(0, 255, 255).h = FFromInt(180)
    /\ probe.remove /\ probe.confidence = FFromInt(1)

\* C12: rgb_to_hsv returns, for every 8-bit triple, a hue in [0, 360) and a
\* saturation and a value in [0, 1]; a pixel whose largest channel equals its
\* smallest has hue 0 and saturation 0; and when two channels tie for the
\* maximum, the formula of each of the tied regions gives the hue returned.
C12_HsvRange ==
    probe.fn = "rgb_to_hsv" =>
        LET r == FDiv(FFromInt(probe.rgb[1]), FFromInt(255))
            g == FDiv(FFromInt(probe.rgb[2]), FFromInt(255))
            b == FDiv(FFromInt(probe.rgb[3]), FFromInt(255))
            max_c == FMax(FMax(r, g), b)
            diff == FSub(max_c, FMin(FMin(r, g), b))
            hsv == probe.out
        IN  /\ FLe(FZero, hsv.h) /\ FLt(hsv.h, FFromInt(360))
            /\ FLe(FZero, hsv.s) /\ FLe(hsv.s, FFromInt(1))
            /\ FLe(FZero, hsv.v) /\ FLe(hsv.v, FFromInt(1))
            /\ Max2(Max2(probe.rgb[1], probe.rgb[2]), probe.rgb[3])
                  = Min2(Min2(probe.rgb[1], probe.rgb[2]), probe.rgb[3])
                  => hsv.h = FZero /\ hsv.s = FZero
            /\ diff # FZero =>
                  /\ max_c = r => hsv.h = HueRed(r, g, b, diff)
                  /\ max_c = g => hsv.h = HueGreen(r, g, b, diff)
                  /\ max_c = b => hsv.h = HueBlue(r, g, b, diff)

\* magenta: red and blue tie for the maximum and the red region's quotient
\* is negative before the modulus
C12_Witness ==
    /\ probe.fn = "rgb_to_hsv" /\ probe.rgb = <<255, 0, 255>>
    /\ probe.out.h = FFromInt(300)
    /\ probe.out.s = FFromInt(1)

\* C13 (as stated): every background-removal function returns an image of
\* the width and height of its input in which every pixel has the red, green
\* and blue values of the input pixel at the same position.
C13_OnlyAlphaChanges ==
    (/\ op.name \in {"cleanup", "iso_chroma", "talent_chroma", "sprites_chroma",
                     "finalize_chroma", "finalize_black", "gen_assets"}
     /\ err = "none") =>
        /\ img.w = prev.w /\ img.h = prev.h
        /\ \A i \in Positions(prev) : RGBOf(img.px[i]) = RGBOf(prev.px[i])

\* C14 (as stated): in generate_isometric_assets, generate_talent_assets and
\* generate_ui_assets a failure of the rembg call (it raises, or returns a
\* value that is not usable) does not leave remove_background as an
\* exception: the next strategy runs on the image and its result is returned.
C14_ExternalFailureCaught ==
    (/\ op.name \in GeneratorOps
     /\ env.has_pil /\ env.remove_bg /\ env.has_rembg
     /\ env.outcome \in {"raises", "unusable"}
     /\ env.decodable) =>
        /\ err = "none"
        /\ img # NoImage
        /\ saved.kind = "png" /\ saved.im = img

\* C15: in generate_isometric_assets and generate_talent_assets, when rembg
\* is present and its call fails, or when rembg is absent, the image
\* remove_background returns is the image remove_background_chroma returns
\* for the same input, and it is the image saved; nothing of the failed
\* call's value is in it.
C15_FallbackEquivalence ==
    (/\ op.name \in {"iso_generate", "talent_generate"}
     /\ env.has_pil /\ env.remove_bg /\ env.decodable
     /\ env.has_rembg => env.outcome \in {"raises", "unusable"}) =>
        /\ err = "none"
        /\ op.name = "iso_generate" =>
             img = IsoRemoveBackgroundChroma(prev, GREEN_THRESHOLD, OTHER_THRESHOLD)
        /\ op.name = "talent_generate" =>
             img = TalentRemoveBackgroundChroma(prev, GREEN_THRESHOLD, OTHER_THRESHOLD)
        /\ saved = File("png", img)

\* rembg returns an unusable value for an opaque green pixel: the pixel is
\* cleared by the chroma key, and the result differs from the value rembg
\* left
C15_Witness ==
    /\ op.name = "iso_generate"
    /\ env.has_rembg /\ env.outcome = "unusable" /\ env.decodable
    /\ prev.px[1] = <<0, 255, 0, 255>>
    /\ img.px[1] = <<0, 0, 0, 0>>
    /\ img # env.result

C18_RoundTrip ==
    (/\ op.name = "cleanup" /\ passes = 2
     /\ first.op.name = "cleanup" /\ first.op.aggressive = op.aggressive) =>
        LET stable(p) == \/ p[4] = 0
                         \/ p[4] = 255 /\ ~should_remove_pixel(p[1], p[2], p[3]).remove
        IN  /\ \A i \in Positions(prev) :
                  stable(prev.px[i]) => img.px[i][4] = prev.px[i][4]
            /\ (\A i \in Positions(prev) : stable(prev.px[i])) => img = prev

\* C19 (as stated): process_sprite_sheet slices only an image whose width
\* is a multiple of cols and whose height is a multiple of rows; for any
\* other image it ends in an error with no frame sliced and no output file
\* written.
C19_GridValidated ==
    (/\ op.name = "sprite_sheet" /\ prev # NoImage
     /\ sheet.rows >= 1 /\ sheet.cols >= 1
     /\ prev.w % sheet.cols # 0 \/ prev.h % sheet.rows # 0) =>
        /\ err # "none"
        /\ sheet.frames = <<>>
        /\ ~sheet.written

\* C20: for an image of width W and height H with W a multiple of cols and
\* H a multiple of rows, process_sprite_sheet slices rows * cols frames; the
\* frame of row r and column c is the one at index r * cols + c, its size is
\* (W / cols, H / rows), and its pixel (x, y) is the pixel
\* (c * W / cols + x, r * H / rows + y) of the background-removed image,
\* which has the red, green and blue of that pixel of the image read.
C20_SlicingExact ==
    (/\ op.name = "sprite_sheet" /\ prev # NoImage
     /\ sheet.rows >= 1 /\ sheet.cols >= 1
     /\ prev.w % sheet.cols = 0 /\ prev.h % sheet.rows = 0) =>
        /\ err = "none"
        /\ Len(sheet.frames) = sheet.rows * sheet.cols
        /\ \A r \in 0 .. sheet.rows - 1 : \A c \in 0 .. sheet.cols - 1 :
              LET frame == sheet.frames[r * sheet.cols + c + 1]
                  cw == prev.w \div sheet.cols
                  ch == prev.h \div sheet.rows
              IN  /\ frame.w = cw /\ frame.h = ch
                  /\ Len(frame.px) = cw * ch
                  /\ \A x \in 0 .. cw - 1 : \A y \in 0 .. ch - 1 :
                        /\ At(frame, x, y) = At(img, c * cw + x, r * ch + y)
                        /\ RGBOf(At(frame, x, y)) = RGBOf(At(prev, c * cw + x, r * ch + y))

\* the 10 x 10 image with an inner pixel colour different from the border's
\* sliced into 2 rows of 5 columns: frame 7 (row 1, column 1) starts at
\* pixel (2, 5) of the image
C20_Witness ==
    /\ op.name = "sprite_sheet" /\ err = "none"
    /\ prev.w = BigSide /\ sheet.rows = 2 /\ sheet.cols = 5
    /\ Len(sheet.frames) = 10
    /\ sheet.boxes[7] = <<2, 5, 4, 10>>
    /\ sheet.frames[7].w = 2 /\ sheet.frames[7].h = 5
    /\ At(sheet.frames[7], 0, 0) # At(sheet.frames[7], 0, 4)
    /\ sheet.written

\* C21: when process_sprite_sheet writes its file, the frames given to the
\* encoder are the sliced frames in the order of slicing, none dropped,
\* doubled or moved; every frame has the duration the caller gave; the loop
\* count is 0.
C21_AssemblyOrder ==
    (op.name = "sprite_sheet" /\ sheet.written) =>
        /\ sheet.encoded = sheet.frames
        /\ Len(sheet.encoded) = sheet.rows * sheet.cols
        /\ \A k \in 1 .. Len(sheet.encoded) :
              sheet.encoded[k] = Crop(img, sheet.boxes[k])
        /\ Len(sheet.durations) = Len(sheet.encoded)
        /\ \A k \in 1 .. Len(sheet.durations) : sheet.durations[k] = sheet.duration
        /\ sheet.loop = 0

\* a 2 x 2 sheet of two colours sliced into four frames shown 100 ms each:
\* the first frame differs from the second
C21_Witness ==
    /\ op.name = "sprite_sheet" /\ sheet.written
    /\ sheet.rows = 2 /\ sheet.cols = 2 /\ prev.w = SmallSide
    /\ Len(sheet.encoded) = 4
    /\ sheet.encoded[1] # sheet.encoded[2]
    /\ sheet.encoded[1] = sheet.frames[1]
    /\ sheet.durations = <<100, 100, 100, 100>>

\* C22: in a run of cleanup_assets.process_directory without preview, the
\* files given to process_image so far are the files before the loop's
\* position whose stem does not hold "_preview", each once and in order,
\* whichever of them failed; processed + errors is their number and errors
\* is the number of them that failed; when the function returns every file
\* has been passed.
C22_BatchIsolation ==
    (batch.phase \in {"running", "returned"} /\ ~batch.preview) =>
        LET done == 1 .. batch.i - 1
            due == {k \in done : ~batch.files[k].preview_stem}
        IN  /\ {batch.log[j] : j \in DOMAIN batch.log} = due
            /\ Len(batch.log) = Cardinality(due)
            /\ \A j \in 1 .. Len(batch.log) - 1 : batch.log[j] < batch.log[j + 1]
            /\ batch.processed + batch.errors = Len(batch.log)
            /\ batch.errors = Cardinality({k \in due : batch.files[k].fails})
            /\ batch.phase = "returned" => batch.i = Len(batch.files) + 1

\* a failing file first, then a file that is processed, then a preview file
C22_Witness ==
    /\ batch.phase = "returned" /\ ~batch.preview
    /\ Len(batch.files) = 3
    /\ batch.files[1].fails /\ ~batch.files[1].preview_stem
    /\ ~batch.files[2].fails /\ ~batch.files[2].preview_stem
    /\ batch.files[3].preview_stem
    /\ batch.log = <<1, 2>>
    /\ batch.processed = 1 /\ batch.errors = 1

\* C23 (as stated): a call of the chroma-key remover of process_sprites or
\* finalize_assets with a negative tolerance or a negative fade ends in an
\* error and returns no image made from the pixels of its input.
C23_InvalidConfigRejected ==
    (/\ op.name \in {"sprites_chroma", "finalize_chroma"}
     /\ op.tolerance < 0 \/ op.fade < 0) =>
        /\ err = "InvalidConfig"
        /\ img = prev

\* C24: cleanup_assets.remove_background changes the alpha channel only;
\* without aggressive the alpha of a pixel is the alpha of the pixel loop,
\* whatever its neighbours; with aggressive a pixel whose neighbours within
\* FEATHER_RADIUS in both directions all have the alpha 1.0, or all the
\* alpha 0.0, after the pixel loop has the alpha 255, or 0.
C24_FeatherLocal ==
    op.name = "cleanup" =>
        LET tab == Tabulate(PixelSet(prev), CleanupNewAlpha)
            pre(i) == Get(tab, prev.px[i])
            x(i) == (i - 1) % prev.w
            y(i) == (i - 1) \div prev.w
            near(i) == {j \in Positions(prev) :
                          /\ Abs(x(j) - x(i)) <= FEATHER_RADIUS
                          /\ Abs(y(j) - y(i)) <= FEATHER_RADIUS}
        IN  \A i \in Positions(prev) :
               /\ RGBOf(img.px[i]) = RGBOf(prev.px[i])
               /\ ~op.aggressive => img.px[i][4] = AlphaByte(pre(i))
               /\ (op.aggressive /\ \A j \in near(i) : pre(j) = FFromInt(1))
                     => img.px[i][4] = 255
               /\ (op.aggressive /\ \A j \in near(i) : pre(j) = FZero)
                     => img.px[i][4] = 0

\* the bordered image with aggressive: the pixel (2, 2) has only opaque
\* foreground around it and stays opaque, the pixel (1, 1) next to the
\* removed border does not, and the removed border pixel (5, 0), with
\* foreground below it, is no longer transparent
C24_Witness ==
    /\ op.name = "cleanup" /\ op.aggressive /\ passes = 1
    /\ prev.w = BigSide
    /\ At(prev, 2, 2) = <<200, 50, 50, 255>> /\ At(img, 2, 2)[4] = 255
    /\ At(prev, 1, 1) = <<200, 50, 50, 255>> /\ At(img, 1, 1)[4] < 255
    /\ At(prev, 5, 0) = <<0, 255, 0, 255>> /\ At(img, 5, 0)[4] > 0

\* C25: a call of generate_image (generate_isometric_assets,
\* generate_talent_assets) that finds its output file returns True, sends
\* no request, runs no background removal and leaves the file as it is.
C25_SkipIfExists ==
    [][(calls'.n = calls.n + 1 /\ saved # NoFile) =>
          /\ calls'.returned = "True"
          /\ calls'.requests = calls.requests
          /\ saved' = saved
          /\ passes' = passes
          /\ img' = img /\ err' = err]_vars

\* a second call for a file the first call wrote: one request in all
C25_Witness ==
    /\ op.name = "iso_generate"
    /\ calls.n = 2 /\ calls.requests = 1 /\ calls.returned = "True"
    /\ saved.kind = "png" /\ saved.im = img
    /\ env.remove_bg /\ img # prev


\* positions of the log holding a request to the provider
RequestsTo(provider) ==
    {i \in DOMAIN gen.log : gen.log[i].kind = "request" /\ gen.log[i].provider = provider}

\* positions of the log holding a sleep of the provider's loop
SleepsOf(provider) ==
    {i \in DOMAIN gen.log : gen.log[i].kind = "sleep" /\ gen.log[i].provider = provider}

\* C26: generate_image_gemini(prompt, retries) sends at most retries
\* requests, numbered 0, 1, ... in order; an attempt that yields an image is
\* the last request and the image is returned; None is returned exactly when
\* retries attempts were made and all failed; a failed attempt k is followed
\* by a sleep of 2^(k+1) seconds when k < retries - 1 and by no sleep when
\* k = retries - 1, and nothing else sleeps.
C26_RetryProtocol ==
    /\ Cardinality(RequestsTo("gemini")) <= gen.retries
    /\ \A i \in RequestsTo("gemini") :
          /\ gen.log[i].attempt = Cardinality({j \in RequestsTo("gemini") : j < i})
          /\ gen.log[i].outcome = "image" =>
                /\ \A j \in RequestsTo("gemini") \cup SleepsOf("gemini") : j <= i
                /\ gen.gemini = "image"
          /\ (gen.log[i].outcome # "image" /\ gen.log[i].attempt < gen.retries - 1) =>
                /\ i + 1 \in SleepsOf("gemini")
                /\ gen.log[i + 1].secs = 2 ^ (gen.log[i].attempt + 1)
          /\ (gen.log[i].outcome # "image" /\ gen.log[i].attempt = gen.retries - 1) =>
                i + 1 \notin SleepsOf("gemini")
    /\ \A i \in SleepsOf("gemini") :
          /\ i - 1 \in RequestsTo("gemini")
          /\ gen.log[i - 1].outcome # "image"
    /\ gen.gemini = "image" =>
          \E i \in RequestsTo("gemini") : gen.log[i].outcome = "image"
    /\ gen.gemini = "None" <=>
          /\ gen.phase \notin {"idle", "gemini"}
          /\ Cardinality(RequestsTo("gemini")) = gen.retries
          /\ \A i \in RequestsTo("gemini") : gen.log[i].outcome # "image"
    /\ (gen.fn = "generate_image_gemini" /\ gen.phase = "returned") =>
          gen.returned = gen.gemini

\* generate_image_gemini(prompt, 3) returned None after three failures of
\* three kinds and two sleeps, of 2 and 4 seconds
C26_Witness ==
    /\ gen.fn = "generate_image_gemini"
    /\ gen.retries = 3
    /\ gen.returned = "None"
    /\ Len(gen.log) = 5
    /\ gen.log[1].outcome = "no_image"
    /\ gen.log[2].secs = 2
    /\ gen.log[3].outcome = "api_error"
    /\ gen.log[4].secs = 4
    /\ gen.log[5].outcome = "exception"


\* C27: in generate_character and generate_ui_element every request to
\* Imagen comes after DefaultRetries requests to Gemini that all failed, so
\* none comes after a Gemini image; once the function has returned or raised,
\* it returned True exactly when a provider gave an image and the file was
\* saved, and when both providers gave None it returned False and wrote no
\* file.
C27_ProviderFallback ==
    gen.fn \in {"generate_character", "generate_ui_element"} =>
        /\ \A i \in RequestsTo("imagen") :
              /\ Cardinality({j \in RequestsTo("gemini") : j < i}) = DefaultRetries
              /\ \A j \in RequestsTo("gemini") : j < i /\ gen.log[j].outcome # "image"
              /\ gen.gemini = "None"
        /\ gen.phase = "returned" =>
              /\ gen.returned = "True" <=> (gen.sprite = "image" /\ gen.written)
              /\ (gen.gemini = "None" /\ gen.sprite = "None") =>
                    (gen.returned = "False" /\ ~gen.written)
              /\ gen.written =>
                    \E i \in DOMAIN gen.log : gen.log[i].outcome = "image"

\* generate_character got no image in three Gemini attempts, an image in the
\* second Imagen attempt, and saved the file
C27_Witness ==
    /\ gen.fn = "generate_character"
    /\ gen.phase = "returned"
    /\ gen.returned = "True"
    /\ gen.written
    /\ Cardinality(RequestsTo("gemini")) = 3
    /\ Cardinality(RequestsTo("imagen")) = 2
    /\ gen.log[Len(gen.log)].provider = "imagen"
    /\ gen.log[Len(gen.log)].outcome = "image"


\* the classification of the pixel under repeated passes
OrbitClass ==
    should_remove_pixel(orbit.im.px[1][1], orbit.im.px[1][2], orbit.im.px[1][3])

\* C28: under repeated passes of cleanup_assets.remove_background
\* (aggressive=False) over its own output the colour of a pixel, and so its
\* classification, stays the same; a pixel classified as background with
\* confidence > 0 gets a strictly smaller alpha in every pass made while its
\* alpha is above 0, and alpha 0 stays 0; a pixel classified as foreground
\* keeps its alpha in every pass; after 10 passes no pass changes the alpha
\* any more.  One pass obeys the two rules for every alpha 0..255 and the
\* sampled confidences.
C28_Converges ==
    /\ (PixelProbe /\ probe.a > 0 /\ probe.remove /\ FGt(probe.confidence, FZero)) =>
          probe.out < probe.a
    /\ (PixelProbe /\ ~probe.remove) => probe.out = probe.a
    /\ op.name = "converge" =>
        /\ Len(orbit.trail) = orbit.n + 1
        /\ orbit.im.px[1][4] = orbit.trail[orbit.n + 1]
        /\ \A k \in 1 .. orbit.n :
              /\ (OrbitClass.remove /\ FGt(OrbitClass.confidence, FZero)) =>
                    /\ orbit.trail[k] > 0 => orbit.trail[k + 1] < orbit.trail[k]
                    /\ orbit.trail[k] = 0 => orbit.trail[k + 1] = 0
              /\ ~OrbitClass.remove => orbit.trail[k + 1] = orbit.trail[k]
              /\ k > 10 => orbit.trail[k + 1] = orbit.trail[k]
        /\ (OrbitClass.remove /\ FGt(OrbitClass.confidence, FZero) /\ orbit.n >= 10) =>
              orbit.im.px[1][4] = 0

\* the opaque pixel (80,100,80), background with confidence 0.4, loses
\* alpha in each of ten passes and is transparent and unchanged after
C28_Witness ==
    /\ op.name = "converge"
    /\ orbit.im.px[1] = <<80, 100, 80, 0>>
    /\ orbit.trail[1] = 255
    /\ orbit.n = 13
    /\ orbit.trail[10] > 0
    /\ orbit.trail[11] = 0


\* C29: for a colour given to both classifiers, when
\* generate_ui_assets.should_remove_pixel returns True,
\* cleanup_assets.should_remove_pixel returns True with a confidence above
\* 0; on a near-black colour (all channels <= 20) and on a near-white colour
\* (all channels >= 240) both return True.
C29_UiSubsetOfCleanup ==
    probe.fn = "classifiers" =>
        /\ probe.out => (probe.remove /\ FGt(probe.confidence, FZero))
        /\ (\A k \in 1 .. 3 : probe.rgb[k] <= 20) => (probe.out /\ probe.remove)
        /\ (\A k \in 1 .. 3 : probe.rgb[k] >= 240) => (probe.out /\ probe.remove)
        /\ ((\A k \in 1 .. 3 : probe.rgb[k] <= 20) \/ (\A k \in 1 .. 3 : probe.rgb[k] >= 240)) =>
              probe.confidence = FFromInt(1)

\* the green (100,150,100), saturation 1/3, is removed by both, by the
\* cleanup classifier with a confidence between 0 and 1
C29_Witness ==
    /\ probe.fn = "classifiers"
    /\ probe.rgb = <<100, 150, 100>>
    /\ probe.out
    /\ probe.remove
    /\ FGt(probe.confidence, FZero)
    /\ FLt(probe.confidence, FFromInt(1))


\* the pixels (x, y) inside a box (left, top, right, bottom)
Cells(box) ==
    {<<x, y>> : x \in box[1] .. box[3] - 1, y \in box[2] .. box[4] - 1}

\* C30: when process_sprite_sheet has sliced an image of width W and height
\* H with rows >= 1 and cols >= 1, there are rows * cols boxes, every box
\* lies inside the image, every box and every frame has size
\* (W // cols, H // rows), no pixel lies in two boxes, and all pixels of the
\* image lie in some box exactly when W % cols = 0 and H % rows = 0; the
\* image after the call is the background-removed image, as it was before
\* the slicing.
C30_SliceGeometry ==
    (/\ op.name = "sprite_sheet" /\ prev # NoImage
     /\ sheet.rows >= 1 /\ sheet.cols >= 1) =>
        /\ Len(sheet.boxes) = sheet.rows * sheet.cols
        /\ Len(sheet.frames) = sheet.rows * sheet.cols
        /\ \A k \in DOMAIN sheet.boxes :
              /\ 0 <= sheet.boxes[k][1] /\ sheet.boxes[k][1] <= sheet.boxes[k][3]
              /\ sheet.boxes[k][3] <= prev.w
              /\ 0 <= sheet.boxes[k][2] /\ sheet.boxes[k][2] <= sheet.boxes[k][4]
              /\ sheet.boxes[k][4] <= prev.h
              /\ sheet.boxes[k][3] - sheet.boxes[k][1] = prev.w \div sheet.cols
              /\ sheet.boxes[k][4] - sheet.boxes[k][2] = prev.h \div sheet.rows
              /\ sheet.frames[k].w = prev.w \div sheet.cols
              /\ sheet.frames[k].h = prev.h \div sheet.rows
        /\ \A j, k \in DOMAIN sheet.boxes :
              j # k => Cells(sheet.boxes[j]) \cap Cells(sheet.boxes[k]) = {}
        /\ (UNION {Cells(sheet.boxes[k]) : k \in DOMAIN sheet.boxes}
               = (0 .. prev.w - 1) \X (0 .. prev.h - 1))
           <=> (prev.w % sheet.cols = 0 /\ prev.h % sheet.rows = 0)
        /\ img = SpritesRemoveBackgroundChroma(prev, <<255, 0, 255>>, 60, 15)

\* a 5 x 4 sheet sliced into 3 rows of 2 columns: six frames of 2 x 1
\* pixels, the last one at (2, 2), and column 4 and row 3 in no frame
C30_Witness ==
    /\ op.name = "sprite_sheet" /\ err = "none"
    /\ prev.w = 5 /\ prev.h = 4
    /\ sheet.rows = 3 /\ sheet.cols = 2
    /\ sheet.boxes[6] = <<2, 2, 4, 3>>
    /\ sheet.frames[6].w = 2 /\ sheet.frames[6].h = 1
    /\ sheet.written

=============================================================================
